---- MODULE Spec2Model ----
(***************************************************************************)
(* Inbound-event reliability layer of gp-data-v4: the in-memory work       *)
(* queue and its worker, the sliding-window rate limiter, the circuit      *)
(* breaker and the debounce buffer.  Each subsystem has its own            *)
(* specification over its own variables; time is the shared variable now   *)
(* (whole seconds).                                                        *)
(***************************************************************************)
EXTENDS Integers, Sequences, FiniteSets, TLC

(* ---------------------------------------------------------------------- *)
(* Bounds of the model                                                     *)
(* ---------------------------------------------------------------------- *)
NumIds == 2
MaxRetriesLadder == 7
MaxReplays == 1
MaxApiCalls == 3
MaxTicksQueue == 1
MaxConcurrentBound == 2

MaxRequestsBound == 2
WindowSeconds == 2
SpikeThreshold == 2
SpikeWindowSeconds == 1
MaxBanSeconds == 2
ExtraTicksRL == 3

FailureThresholdBound == 2
HalfOpenMaxBound == 2
RecoveryTimeout == 2
MaxInFlight == 2
MaxOpsCB == 4
MaxTimeCB == 4
MaxAdds == 3
MaxMessagesBound == 3
BufferSeconds == 2
MaxTimeBuf == 3
MaxFlushAlls == 1

Ids == 1..NumIds
CallSlots == 1..MaxInFlight
\* rate-limit keys: the key an operation is about and one other key
RLKeys == {1, 2}
TaskSlots == 1..NumIds
\* values of QueuedMessage.max_retries given to the items the worker processes
MaxRetriesInputs == {0, 1}

(* ---------------------------------------------------------------------- *)
(* Program constants                                                       *)
(* ---------------------------------------------------------------------- *)
RetryDelays == <<60, 300, 900, 3600, 21600>>

Min(a, b) == IF a <= b THEN a ELSE b
Max(a, b) == IF a >= b THEN a ELSE b

VARIABLES
  now,              \* wall clock, seconds
  \* InMemoryQueue
  messages,         \* _messages: id -> QueuedMessage
  pending_queue,    \* _pending_queue: FIFO of ids
  processing,       \* _processing
  completed,        \* _completed
  failed,           \* _failed
  dead_letter,      \* _dead_letter (keys)
  processing_times, \* _processing_times (ms)
  \* QueueWorker
  max_concurrent,   \* constructor argument
  running,          \* _running
  wpc,              \* position of the start() coroutine
  wgot,             \* id taken from the pending queue by the dequeue in progress
  tasks,            \* _tasks: slot -> spawned _process_message task
  sem,              \* _semaphore value
  spc,              \* position of the stop() coroutine
  \* history
  failCalls,        \* Fail calls per item since it was last admitted
  replays,          \* number of retry_dead_letter calls made
  lastEnded,        \* outcome of the spawned unit that ended last
  lastDelay,        \* history: per id, the delay of its last scheduled retry
  apiGot,           \* the id a direct dequeue call holds between get and the lock
  qLast,            \* history: the last direct call of the queue and its result
  apiCalls,         \* number of direct complete, fail and retry_dead_letter calls
  \* InMemoryRateLimiter
  max_requests,     \* constructor argument
  requests,         \* _requests: key -> admitted timestamps still kept
  bans,             \* _bans: key -> (ban_until, reason)
  admitted,         \* history: every timestamp ever admitted, per key
  rlLast,           \* history: the last rate-limiter call and its result
  banSet,           \* history: per key, when ban_lead last ran and for how long
  \* CircuitBreaker
  failure_threshold,    \* constructor argument
  half_open_max_calls,  \* constructor argument
  cb_state,             \* _state
  stats,                \* _stats: CircuitStats
  half_open_calls,      \* _half_open_calls
  calls,                \* the call() coroutines that are inside func
  cbOps,                \* history: number of call, reset and force_open calls
  cbLastOp,             \* history: the last step of the circuit breaker
  cbReturned,           \* history: what the last finished call gave its caller
  probesThisPeriod,     \* history: fn invocations admitted in this HalfOpen period
  failsSinceSuccess,    \* history: failures recorded since the last success
  \* MessageBuffer
  max_messages,     \* constructor argument
  buffers,          \* _buffers: phone -> LeadBuffer
  timers,           \* the _scheduled_flush tasks, named by the add that created them
  lockq,            \* coroutines waiting for _lock, first come first served
  flushing,         \* the on_flush call in progress; _lock is held meanwhile
  addCount,         \* number of add calls so far; names bodies, sids and timers
  hist,             \* history: the adds executed for a phone since its last flush
  lastFlush,        \* history: the last on_flush invocation
  offered,          \* history: per add, the on_flush invocations that held its body
  flushAll,         \* the flush_all coroutine: its position and the phones left
  flushAlls,        \* number of flush_all calls so far
  faGroups,         \* history: the groups that existed when flush_all was called
  lastError         \* history: the last on_flush error and where it ended up

qvars == <<messages, pending_queue, processing, completed, failed, dead_letter,
           processing_times>>
wvars == <<max_concurrent, running, wpc, wgot, tasks, sem, spc>>
hvars == <<failCalls, replays, lastEnded, lastDelay>>
apivars == <<apiGot, qLast, apiCalls>>
rlvars == <<max_requests, requests, bans, admitted, rlLast, banSet>>
cbvars == <<failure_threshold, half_open_max_calls, cb_state, stats, half_open_calls,
            calls, cbOps, cbLastOp, cbReturned, probesThisPeriod, failsSinceSuccess>>
favars == <<flushAll, flushAlls, faGroups>>
bufvars == <<max_messages, buffers, timers, lockq, flushing, addCount, hist, lastFlush, offered,
             favars, lastError>>
vars == <<now, qvars, wvars, hvars, apivars, rlvars, cbvars, bufvars>>
outsideWorker == <<apivars, rlvars, cbvars, bufvars>>
outsideQueue == <<wvars, rlvars, cbvars, bufvars>>
outsideRL == <<qvars, wvars, hvars, apivars, cbvars, bufvars>>
outsideCB == <<qvars, wvars, hvars, apivars, rlvars, bufvars>>
outsideBuf == <<qvars, wvars, hvars, apivars, rlvars, cbvars>>

NoTask == [pc |-> "none"]
NoId == 0

(* ---------------------------------------------------------------------- *)
(* The subsystems right after construction                                 *)
(* ---------------------------------------------------------------------- *)
QueueIdle ==
  /\ messages = <<>>
  /\ pending_queue = <<>>
  /\ processing = {}
  /\ completed = {}
  /\ failed = {}
  /\ dead_letter = {}
  /\ processing_times = <<>>
  /\ max_concurrent = 1
  /\ running = FALSE
  /\ wpc = "idle"
  /\ wgot = NoId
  /\ tasks = [t \in TaskSlots |-> NoTask]
  /\ sem = max_concurrent
  /\ spc = "idle"
  /\ failCalls = [i \in Ids |-> 0]
  /\ replays = 0
  /\ lastEnded = [how |-> "none"]
  /\ lastDelay = [i \in Ids |-> 0]
  /\ apiGot = NoId
  /\ qLast = [op |-> "none"]
  /\ apiCalls = 0

NoBan == [banned |-> FALSE]

NeverBanned == [k \in RLKeys |-> [set |-> FALSE]]

RateLimiterIdle ==
  /\ max_requests = 1
  /\ requests = [k \in RLKeys |-> <<>>]
  /\ bans = [k \in RLKeys |-> NoBan]
  /\ admitted = [k \in RLKeys |-> <<>>]
  /\ rlLast = [op |-> "none"]
  /\ banSet = NeverBanned

NoTime == -1
NoCall == [pc |-> "free"]

CircuitStats ==
  [consecutive_failures |-> 0, total_failures |-> 0, total_successes |-> 0,
   last_failure_time |-> NoTime, last_success_time |-> NoTime,
   opened_at |-> NoTime, state_changes |-> 0]

CircuitIdle ==
  /\ failure_threshold = 1
  /\ half_open_max_calls = 1
  /\ cb_state = "closed"
  /\ stats = CircuitStats
  /\ half_open_calls = 0
  /\ calls = [c \in CallSlots |-> NoCall]
  /\ cbOps = 0
  /\ cbLastOp = [op |-> "none"]
  /\ cbReturned = [via |-> "none"]
  /\ probesThisPeriod = 0
  /\ failsSinceSuccess = 0

Phones == {1, 2}
ProfileNames == {"", "ana", "bea"}
AddIds == 1..MaxAdds
NoTimer == 0
Separator == 0
NoGroup == [present |-> FALSE]
TimerDone == [pc |-> "done"]
NotFlushing == [active |-> FALSE]
NoFlush == [n |-> 0]
NoFlushAll == [pc |-> "idle"]
NoError == [n |-> 0]
NoGroups == [k \in Phones |-> 0]

BufferIdle ==
  /\ max_messages = 2
  /\ buffers = [k \in Phones |-> NoGroup]
  /\ timers = [t \in AddIds |-> TimerDone]
  /\ lockq = <<>>
  /\ flushing = NotFlushing
  /\ addCount = 0
  /\ hist = [k \in Phones |-> <<>>]
  /\ lastFlush = NoFlush
  /\ offered = [i \in AddIds |-> 0]
  /\ flushAll = NoFlushAll
  /\ flushAlls = 0
  /\ faGroups = NoGroups
  /\ lastError = NoError

(* ---------------------------------------------------------------------- *)
(* InMemoryQueue                                                           *)
(* ---------------------------------------------------------------------- *)
NewMessage(m) ==
  [status |-> "pending", retry_count |-> 0, max_retries |-> m,
   created_at |-> now, scheduled_at |-> now, error |-> FALSE]

PutMessage(id, msg) ==
  [i \in DOMAIN messages \cup {id} |-> IF i = id THEN msg ELSE messages[i]]

QEnqueue(id, m) ==
  /\ messages' = PutMessage(id, NewMessage(m))
  /\ pending_queue' = Append(pending_queue, id)
  /\ UNCHANGED <<processing, completed, failed, dead_letter, processing_times>>

RequeueDropped(q, id) == q

\* dequeue, line 110: a message that is not due goes back to the tail
Requeue(q, id) == Append(q, id)

IsReadyAlways(msg) == TRUE

\* dequeue, line 108: if message.scheduled_at > now: re-queue
IsReady(msg) == ~(msg.scheduled_at > now)

KeepLast(s, n) == IF Len(s) > n THEN SubSeq(s, Len(s) - n + 1, Len(s)) ELSE s

QComplete(id) ==
  IF id \notin DOMAIN messages
  THEN UNCHANGED qvars
  ELSE /\ messages' = [messages EXCEPT ![id].status = "completed"]
       /\ processing' = processing \ {id}
       /\ completed' = completed \cup {id}
       /\ processing_times' =
            KeepLast(Append(processing_times,
                            (now - messages[id].created_at) * 1000), 1000)
       /\ UNCHANGED <<pending_queue, failed, dead_letter>>

ShouldRetry(rc, m) == rc <= m

DelayIndexWrapped(rc) == (rc - 1) % Len(RetryDelays)

\* fail, line 173: min(message.retry_count - 1, len(self._retry_delays) - 1)
DelayIndex(rc) == Min(rc - 1, Len(RetryDelays) - 1)

RetryDelayByNewCount(rc) == RetryDelays[Min(rc, Len(RetryDelays) - 1) + 1]

RetryDelay(rc) == RetryDelays[DelayIndex(rc) + 1]

QFail(id) ==
  IF id \notin DOMAIN messages
  THEN UNCHANGED qvars
  ELSE LET rc == messages[id].retry_count + 1 IN
       /\ processing' = processing \ {id}
       /\ failed' = failed \cup {id}
       /\ IF ShouldRetry(rc, messages[id].max_retries)
          THEN /\ messages' = [messages EXCEPT ![id].error = TRUE,
                                               ![id].retry_count = rc,
                                               ![id].scheduled_at = now + RetryDelay(rc),
                                               ![id].status = "pending"]
               /\ pending_queue' = Append(pending_queue, id)
               /\ UNCHANGED dead_letter
          ELSE /\ messages' = [messages EXCEPT ![id].error = TRUE,
                                               ![id].retry_count = rc,
                                               ![id].status = "dead_letter"]
               /\ dead_letter' = dead_letter \cup {id}
               /\ UNCHANGED pending_queue
       /\ UNCHANGED <<completed, processing_times>>

ReplayCountKept(rc) == rc

\* retry_dead_letter, line 251: message.retry_count = 0
ReplayCount(rc) == 0

QRetryDeadLetter(id) ==
  IF id \notin dead_letter
  THEN UNCHANGED qvars
  ELSE /\ dead_letter' = dead_letter \ {id}
       /\ messages' = [messages EXCEPT ![id].retry_count = ReplayCount(@),
                                       ![id].status = "pending",
                                       ![id].scheduled_at = now,
                                       ![id].error = FALSE]
       /\ pending_queue' = Append(pending_queue, id)
       /\ UNCHANGED <<processing, completed, failed, processing_times>>

\* get_metrics: the counts of the QueueMetrics it returns
GetMetrics ==
  [pending |-> Len(pending_queue),
   processing |-> Cardinality(processing),
   completed |-> Cardinality(completed),
   failed |-> Cardinality(failed),
   dead_letter |-> Cardinality(dead_letter)]

TotalDistinct(c, f) == Cardinality(c \cup f)

\* get_metrics: total_messages = len(self._completed) + len(self._failed)
TotalMessages(c, f) == Cardinality(c) + Cardinality(f)

\* get_metrics: error_rate = len(self._failed) / total_messages * 100 when
\* total_messages > 0, else 0.0; the quotient is kept as the fraction num / den
ErrorRate ==
  LET total_messages == TotalMessages(completed, failed)
  IN  IF total_messages > 0
      THEN [num |-> Cardinality(failed) * 100, den |-> total_messages]
      ELSE [num |-> 0, den |-> 1]

\* history: the delay that fail has just scheduled for id, if it scheduled one
DelayAfterFail(id) ==
  IF id \in DOMAIN messages /\ messages'[id].status = "pending"
  THEN [lastDelay EXCEPT ![id] = messages'[id].scheduled_at - now]
  ELSE lastDelay

(* ---------------------------------------------------------------------- *)
(* Callers of the queue                                                    *)
(* ---------------------------------------------------------------------- *)
\* api/main.py: every inbound message is enqueued under a fresh uuid4
EnqueueWith(I, R) ==
  \E id \in I \ DOMAIN messages, m \in R :
    /\ QEnqueue(id, m)
    /\ failCalls' = [failCalls EXCEPT ![id] = 0]
    /\ lastDelay' = [lastDelay EXCEPT ![id] = 0]
    /\ UNCHANGED <<now, wvars, replays, lastEnded>>
    /\ UNCHANGED outsideWorker

Enqueue == EnqueueWith(Ids, MaxRetriesInputs)

EnqueueLadder == EnqueueWith({1}, 0..MaxRetriesLadder)

RetryDeadLetter ==
  \E id \in dead_letter :
    /\ replays < MaxReplays
    /\ QRetryDeadLetter(id)
    /\ failCalls' = [failCalls EXCEPT ![id] = 0]
    /\ replays' = replays + 1
    /\ UNCHANGED <<now, wvars, lastEnded, lastDelay>>
    /\ UNCHANGED outsideWorker

(* ---------------------------------------------------------------------- *)
(* QueueWorker                                                             *)
(* ---------------------------------------------------------------------- *)
Active == {t \in TaskSlots : tasks[t].pc # "none"}
InHandler == {t \in Active : tasks[t].pc = "handler"}

WStart ==
  /\ ~running
  /\ wpc = "idle"
  /\ running' = TRUE
  /\ wpc' = "check"
  /\ UNCHANGED <<now, qvars, max_concurrent, wgot, tasks, sem, spc, hvars>>
  /\ UNCHANGED outsideWorker

\* while self._running: ... await self.queue.dequeue()
WCheck ==
  /\ wpc = "check"
  /\ wpc' = IF running THEN "get" ELSE "stopped"
  /\ UNCHANGED <<now, qvars, max_concurrent, running, wgot, tasks, sem, spc, hvars>>
  /\ UNCHANGED outsideWorker

\* dequeue: wait_for(self._pending_queue.get(), 0.1) delivers an id
WGetItem ==
  /\ wpc = "get"
  /\ pending_queue # <<>>
  /\ wgot' = Head(pending_queue)
  /\ pending_queue' = Tail(pending_queue)
  /\ wpc' = "locked"
  /\ UNCHANGED <<now, messages, processing, completed, failed, dead_letter,
                 processing_times, max_concurrent, running, tasks, sem, spc, hvars>>
  /\ UNCHANGED outsideWorker

\* dequeue times out on the empty queue; start() sleeps and polls again
WGetTimeout ==
  /\ wpc = "get"
  /\ pending_queue = <<>>
  /\ wpc' = "check"
  /\ UNCHANGED <<now, qvars, max_concurrent, running, wgot, tasks, sem, spc, hvars>>
  /\ UNCHANGED outsideWorker

NewTask(id) ==
  [pc |-> "sem_wait", msg |-> id, invoked |-> 0, completes |-> 0, fails |-> 0,
   awaited |-> FALSE, cancel |-> FALSE]

\* dequeue under the lock, then start() spawns _process_message
WDequeue ==
  /\ wpc = "locked"
  /\ wpc' = "check"
  /\ wgot' = NoId
  /\ IF wgot \notin DOMAIN messages
     THEN UNCHANGED <<qvars, tasks>>
     ELSE IF ~IsReady(messages[wgot])
     THEN /\ pending_queue' = Requeue(pending_queue, wgot)
          /\ UNCHANGED <<messages, processing, completed, failed, dead_letter,
                         processing_times, tasks>>
     ELSE /\ messages' = [messages EXCEPT ![wgot].status = "processing"]
          /\ processing' = processing \cup {wgot}
          /\ \E t \in TaskSlots \ Active :
               /\ \A u \in TaskSlots \ Active : t <= u
               /\ tasks' = [tasks EXCEPT ![t] = NewTask(wgot)]
          /\ UNCHANGED <<pending_queue, completed, failed, dead_letter,
                         processing_times>>
  /\ UNCHANGED <<now, max_concurrent, running, sem, spc, hvars>>
  /\ UNCHANGED outsideWorker

SemFreeAlways(n) == TRUE

\* async with self._semaphore
SemFree(n) == n > 0

Ended(t, how) ==
  [msg |-> tasks[t].msg, invoked |-> tasks[t].invoked,
   completes |-> tasks[t].completes, fails |-> tasks[t].fails, how |-> how]

TAcquire(t) ==
  /\ tasks[t].pc = "sem_wait"
  /\ ~tasks[t].cancel
  /\ SemFree(sem)
  /\ sem' = sem - 1
  /\ tasks' = [tasks EXCEPT ![t].pc = "handler", ![t].invoked = @ + 1]
  /\ UNCHANGED <<now, qvars, max_concurrent, running, wpc, wgot, spc, hvars>>
  /\ UNCHANGED outsideWorker

\* the handler returns; queue.complete
THandlerReturn(t) ==
  /\ tasks[t].pc = "handler"
  /\ ~tasks[t].cancel
  /\ QComplete(tasks[t].msg)
  /\ sem' = sem + 1
  /\ lastEnded' = [Ended(t, "returned") EXCEPT !.completes = @ + 1]
  /\ tasks' = [tasks EXCEPT ![t] = NoTask]
  /\ UNCHANGED <<now, max_concurrent, running, wpc, wgot, spc,
                 failCalls, replays, lastDelay>>
  /\ UNCHANGED outsideWorker

LoopCrashed(pc) == "crashed"

\* _process_message, lines 149-162: the Exception is caught inside the
\* spawned unit, so the loop in start() stays where it is
LoopAfterRaise(pc) == pc

\* the handler raises an Exception; queue.fail
THandlerRaise(t) ==
  /\ tasks[t].pc = "handler"
  /\ ~tasks[t].cancel
  /\ QFail(tasks[t].msg)
  /\ wpc' = LoopAfterRaise(wpc)
  /\ sem' = sem + 1
  /\ failCalls' = [failCalls EXCEPT ![tasks[t].msg] = @ + 1]
  /\ lastDelay' = DelayAfterFail(tasks[t].msg)
  /\ lastEnded' = [Ended(t, "raised") EXCEPT !.fails = @ + 1]
  /\ tasks' = [tasks EXCEPT ![t] = NoTask]
  /\ UNCHANGED <<now, max_concurrent, running, wgot, spc, replays>>
  /\ UNCHANGED outsideWorker

\* CancelledError is delivered to a unit that stop() cancelled: it is not an
\* Exception, so neither complete nor fail runs; the semaphore is released
TCancelled(t) ==
  /\ tasks[t].pc \in {"sem_wait", "handler"}
  /\ tasks[t].cancel
  /\ sem' = IF tasks[t].pc = "handler" THEN sem + 1 ELSE sem
  /\ lastEnded' = Ended(t, "cancelled")
  /\ tasks' = [tasks EXCEPT ![t] = NoTask]
  /\ UNCHANGED <<now, qvars, max_concurrent, running, wpc, wgot, spc,
                 failCalls, replays, lastDelay>>
  /\ UNCHANGED outsideWorker

StopCall ==
  /\ running
  /\ spc = "idle"
  /\ running' = FALSE
  /\ IF Active = {}
     THEN UNCHANGED <<tasks, spc>>
     ELSE /\ tasks' = [t \in TaskSlots |->
                         IF t \in Active THEN [tasks[t] EXCEPT !.awaited = TRUE]
                         ELSE tasks[t]]
          /\ spc' = "waiting"
  /\ UNCHANGED <<now, qvars, max_concurrent, wpc, wgot, sem, hvars>>
  /\ UNCHANGED outsideWorker

\* gather(*self._tasks) finished within the timeout
StopGathered ==
  /\ spc = "waiting"
  /\ \A t \in Active : ~tasks[t].awaited
  /\ spc' = "idle"
  /\ UNCHANGED <<now, qvars, max_concurrent, running, wpc, wgot, tasks, sem, hvars>>
  /\ UNCHANGED outsideWorker

\* a unit that cannot proceed by itself: it runs the Processor, or it waits
\* for a semaphore that has no free slot
Blocked(t) ==
  \/ tasks[t].pc = "handler"
  \/ tasks[t].pc = "sem_wait" /\ ~SemFree(sem)

\* wait_for timed out (the units took longer than the 30 s grace period):
\* for task in self._tasks: task.cancel()
StopTimeout ==
  /\ spc = "waiting"
  /\ \E t \in Active : tasks[t].awaited
  /\ \A t \in Active : Blocked(t)
  /\ tasks' = [t \in TaskSlots |->
                 IF t \in Active THEN [tasks[t] EXCEPT !.cancel = TRUE, !.awaited = FALSE]
                 ELSE tasks[t]]
  /\ spc' = "idle"
  /\ UNCHANGED <<now, qvars, max_concurrent, running, wpc, wgot, sem, hvars>>
  /\ UNCHANGED outsideWorker

\* time passes up to an instant at which something becomes due
WorkerInstants == {messages[i].scheduled_at : i \in DOMAIN messages}

TickWorker ==
  /\ \E s \in WorkerInstants : s > now /\ now' = s
  /\ UNCHANGED <<qvars, wvars, hvars>>
  /\ UNCHANGED outsideWorker

InitWorker ==
  /\ now = 0
  /\ RateLimiterIdle
  /\ CircuitIdle
  /\ BufferIdle
  /\ messages = <<>>
  /\ pending_queue = <<>>
  /\ processing = {}
  /\ completed = {}
  /\ failed = {}
  /\ dead_letter = {}
  /\ processing_times = <<>>
  /\ max_concurrent \in 1..MaxConcurrentBound
  /\ running = FALSE
  /\ wpc = "idle"
  /\ wgot = NoId
  /\ tasks = [t \in TaskSlots |-> NoTask]
  /\ sem = max_concurrent
  /\ spc = "idle"
  /\ failCalls = [i \in Ids |-> 0]
  /\ replays = 0
  /\ lastEnded = [how |-> "none"]
  /\ lastDelay = [i \in Ids |-> 0]
  /\ apiGot = NoId
  /\ qLast = [op |-> "none"]
  /\ apiCalls = 0

RunSteps ==
  \/ WStart
  \/ WCheck
  \/ WGetItem
  \/ WGetTimeout
  \/ WDequeue
  \/ \E t \in TaskSlots : TAcquire(t)
  \/ \E t \in TaskSlots : THandlerReturn(t)
  \/ \E t \in TaskSlots : THandlerRaise(t)
  \/ TickWorker

StopSteps ==
  \/ \E t \in TaskSlots : TCancelled(t)
  \/ StopCall
  \/ StopGathered
  \/ StopTimeout

NextWorker == Enqueue \/ RunSteps \/ StopSteps

SpecWorker == InitWorker /\ [][NextWorker]_vars

\* the life of one item with max_retries up to MaxRetriesLadder: the whole
\* ladder, the dead-letter partition and its replay
NextLadder == EnqueueLadder \/ RetryDeadLetter \/ RunSteps \/ StopSteps

SpecLadder == InitWorker /\ [][NextLadder]_vars

\* the worker is started and never stopped, the event loop schedules every
\* runnable coroutine, the Processor returns or raises, and time passes
NextLive == Enqueue \/ RunSteps

WLoop == WStart \/ WCheck \/ WGetItem \/ WGetTimeout \/ WDequeue

TUnit(t) == TAcquire(t) \/ THandlerReturn(t) \/ THandlerRaise(t)

FairLive ==
  /\ WF_vars(WLoop)
  /\ \A t \in TaskSlots : WF_vars(TUnit(t))
  /\ WF_vars(TickWorker)

\* a worker with a single concurrency slot
InitLive == InitWorker /\ max_concurrent = 1

SpecLive == InitLive /\ [][NextLive]_vars /\ FairLive

(* ---------------------------------------------------------------------- *)
(* The queue called directly: any caller, any order of calls               *)
(* ---------------------------------------------------------------------- *)
StatusOf(id) == IF id \in DOMAIN messages THEN messages[id].status ELSE "absent"

\* history: what the call was, on which id, and the status it found
Called(op, id) == [op |-> op, id |-> id, before |-> StatusOf(id)]

\* the ids the direct callers use
QueueIds == {1, 2}

ApiEnqueueWith(I, R) ==
  \E id \in I \ DOMAIN messages, m \in R :
    /\ QEnqueue(id, m)
    /\ failCalls' = [failCalls EXCEPT ![id] = 0]
    /\ lastDelay' = [lastDelay EXCEPT ![id] = 0]
    /\ qLast' = Called("enqueue", id)
    /\ UNCHANGED <<now, apiGot, apiCalls, replays, lastEnded>>
    /\ UNCHANGED outsideQueue

ApiEnqueue == ApiEnqueueWith(QueueIds, MaxRetriesInputs)

\* dequeue: wait_for(self._pending_queue.get(), 0.1) delivers an id
ApiDequeueGet ==
  /\ apiGot = NoId
  /\ pending_queue # <<>>
  /\ apiGot' = Head(pending_queue)
  /\ pending_queue' = Tail(pending_queue)
  /\ qLast' = [op |-> "dequeue_get", id |-> Head(pending_queue),
               before |-> StatusOf(Head(pending_queue)), queue |-> pending_queue]
  /\ UNCHANGED <<now, messages, processing, completed, failed, dead_letter,
                 processing_times, apiCalls, hvars>>
  /\ UNCHANGED outsideQueue

\* dequeue: the get times out on the empty queue, None is returned
ApiDequeueTimeout ==
  /\ apiGot = NoId
  /\ pending_queue = <<>>
  /\ qLast' = [op |-> "dequeue", id |-> NoId, before |-> "absent", returned |-> NoId]
  /\ UNCHANGED <<now, qvars, apiGot, apiCalls, hvars>>
  /\ UNCHANGED outsideQueue

\* dequeue under the lock: None for an unknown id, the id goes back to the
\* tail when it is not due, otherwise the message is returned as PROCESSING
ApiDequeueLocked ==
  /\ apiGot # NoId
  /\ apiGot' = NoId
  /\ IF apiGot \notin DOMAIN messages
     THEN /\ qLast' = [Called("dequeue", apiGot) EXCEPT !.returned = NoId]
          /\ UNCHANGED qvars
     ELSE IF ~IsReady(messages[apiGot])
     THEN /\ pending_queue' = Requeue(pending_queue, apiGot)
          /\ qLast' = [op |-> "dequeue", id |-> apiGot, before |-> StatusOf(apiGot),
                       returned |-> NoId]
          /\ UNCHANGED <<messages, processing, completed, failed, dead_letter,
                         processing_times>>
     ELSE /\ messages' = [messages EXCEPT ![apiGot].status = "processing"]
          /\ processing' = processing \cup {apiGot}
          /\ qLast' = [op |-> "dequeue", id |-> apiGot, before |-> StatusOf(apiGot),
                       returned |-> apiGot]
          /\ UNCHANGED <<pending_queue, completed, failed, dead_letter,
                         processing_times>>
  /\ UNCHANGED <<now, apiCalls, hvars>>
  /\ UNCHANGED outsideQueue

ApiComplete(id) ==
  /\ apiCalls < MaxApiCalls
  /\ apiCalls' = apiCalls + 1
  /\ QComplete(id)
  /\ qLast' = Called("complete", id)
  /\ UNCHANGED <<now, apiGot, hvars>>
  /\ UNCHANGED outsideQueue

ApiFailWithin(id, budget) ==
  /\ apiCalls < budget
  /\ apiCalls' = apiCalls + 1
  /\ QFail(id)
  /\ failCalls' = IF id \in DOMAIN messages
                  THEN [failCalls EXCEPT ![id] = @ + 1] ELSE failCalls
  /\ lastDelay' = DelayAfterFail(id)
  /\ qLast' = Called("fail", id)
  /\ UNCHANGED <<now, apiGot, replays, lastEnded>>
  /\ UNCHANGED outsideQueue

ApiFail(id) == ApiFailWithin(id, MaxApiCalls)

ApiRetryDeadLetterWithin(id, budget) ==
  /\ replays < MaxReplays
  /\ apiCalls < budget
  /\ apiCalls' = apiCalls + 1
  /\ QRetryDeadLetter(id)
  /\ failCalls' = IF id \in dead_letter
                  THEN [failCalls EXCEPT ![id] = 0] ELSE failCalls
  /\ replays' = replays + 1
  /\ qLast' = Called("retry_dead_letter", id)
  /\ UNCHANGED <<now, apiGot, lastEnded, lastDelay>>
  /\ UNCHANGED outsideQueue

\* time passes up to an instant at which a retry becomes due
TickQueueUpTo(horizon) ==
  /\ \E s \in WorkerInstants : s > now /\ s <= horizon /\ now' = s
  /\ UNCHANGED <<qvars, hvars, apivars>>
  /\ UNCHANGED outsideQueue

TickQueue == TickQueueUpTo(MaxTicksQueue * RetryDelays[1])

ApiRetryDeadLetter(id) == ApiRetryDeadLetterWithin(id, MaxApiCalls)

InitQueue == InitWorker /\ max_concurrent = 1

NextQueue ==
  \/ ApiEnqueue
  \/ ApiDequeueGet
  \/ ApiDequeueTimeout
  \/ ApiDequeueLocked
  \/ \E id \in QueueIds : ApiComplete(id)
  \/ \E id \in QueueIds : ApiFail(id)
  \/ \E id \in QueueIds : ApiRetryDeadLetter(id)
  \/ TickQueue

SpecQueue == InitQueue /\ [][NextQueue]_vars

\* one item with max_retries up to MaxRetriesLadder, failed by direct calls
\* as often as its ladder and one replay need
LadderCalls == MaxRetriesLadder + 1 + MaxReplays

LadderHorizon == LadderCalls * RetryDelays[Len(RetryDelays)]

NextQueueLadder ==
  \/ ApiEnqueueWith({1}, 0..MaxRetriesLadder)
  \/ ApiDequeueGet
  \/ ApiDequeueTimeout
  \/ ApiDequeueLocked
  \/ ApiFailWithin(1, LadderCalls)
  \/ ApiRetryDeadLetterWithin(1, LadderCalls)
  \/ TickQueueUpTo(LadderHorizon)

SpecQueueLadder == InitQueue /\ [][NextQueueLadder]_vars

(* ---------------------------------------------------------------------- *)
(* InMemoryRateLimiter.  In its specification now counts half seconds, so  *)
(* that instants between whole seconds exist.                              *)
(* ---------------------------------------------------------------------- *)
Ticks(seconds) == seconds + seconds

\* timedelta.total_seconds() truncated by int(); d is not negative
WholeSeconds(d) == d \div Ticks(1)

RECURSIVE SeqMin(_)
SeqMin(s) == IF Len(s) = 1 THEN s[1] ELSE Min(s[1], SeqMin(Tail(s)))

\* the timestamps of s later than start (the list comprehensions of
\* check_rate_limit and detect_spike)
After(s, start) == SelectSeq(s, LAMBDA ts : ts > start)

LimitReachedStrict(count) == count > max_requests

\* if request_count >= self.max_requests
LimitReached(count) == count >= max_requests

\* int((reset_at - now).total_seconds()), then max(retry_after, 1)
RetryAfter(reset_at) == Max(WholeSeconds(reset_at - now), 1)

PrunedEveryKey(k, start) == [j \in RLKeys |-> After(requests[j], start)]

\* self._requests[lead_id] = [ts for ts in self._requests[lead_id] if ts > window_start]
Pruned(k, start) == [requests EXCEPT ![k] = After(@, start)]

AfterDeniedStamped(k, start) == [Pruned(k, start) EXCEPT ![k] = Append(@, now)]

\* the denied branch returns at line 158, before the append of line 167
AfterDenied(k, start) == Pruned(k, start)

DeniedWhenBanned(k, count) == LimitReached(count) \/ (bans[k].banned /\ count > 0)

\* the only test of check_rate_limit: the ban record of the key is not read
Denied(k, count) == LimitReached(count)

CheckRateLimit(k) ==
  LET window_start == now - Ticks(WindowSeconds)
      kept == After(requests[k], window_start)
      request_count == Len(kept)
      seen == Len(admitted[k])
  IN  /\ IF Denied(k, request_count)
         THEN LET reset_at == SeqMin(kept) + Ticks(WindowSeconds) IN
              /\ requests' = AfterDenied(k, window_start)
              /\ admitted' = [admitted EXCEPT ![k] = After(@, window_start)]
              /\ rlLast' = [op |-> "check", key |-> k, at |-> now, allowed |-> FALSE,
                            remaining |-> 0, reset_at |-> reset_at,
                            retry_after |-> RetryAfter(reset_at), seen |-> seen]
         ELSE /\ requests' = [Pruned(k, window_start) EXCEPT ![k] = Append(@, now)]
              /\ admitted' = [admitted EXCEPT ![k] = Append(@, now)]
              /\ rlLast' = [op |-> "check", key |-> k, at |-> now, allowed |-> TRUE,
                            remaining |-> max_requests - (request_count + 1),
                            reset_at |-> now + Ticks(WindowSeconds),
                            retry_after |-> 0, seen |-> seen]
      /\ UNCHANGED <<now, max_requests, bans, banSet>>
      /\ UNCHANGED outsideRL

BanExpiredAtEnd(ban_until) == now >= ban_until

\* if now > ban_until
BanExpired(ban_until) == now > ban_until

IsBanned(k) ==
  /\ IF ~bans[k].banned
     THEN /\ rlLast' = [op |-> "is_banned", key |-> k, at |-> now, result |-> FALSE]
          /\ UNCHANGED bans
     ELSE IF BanExpired(bans[k].ban_until)
     THEN /\ bans' = [bans EXCEPT ![k] = NoBan]
          /\ rlLast' = [op |-> "is_banned", key |-> k, at |-> now, result |-> FALSE]
     ELSE /\ rlLast' = [op |-> "is_banned", key |-> k, at |-> now, result |-> TRUE]
          /\ UNCHANGED bans
  /\ UNCHANGED <<now, max_requests, requests, admitted, banSet>>
  /\ UNCHANGED outsideRL

BanLeadSets(k, duration_seconds, set) ==
  /\ bans' = [bans EXCEPT ![k] =
                [banned |-> TRUE, ban_until |-> now + Ticks(duration_seconds),
                 reason |-> "spike"]]
  /\ rlLast' = [op |-> "ban", key |-> k, at |-> now]
  /\ banSet' = set
  /\ UNCHANGED <<now, max_requests, requests, admitted>>
  /\ UNCHANGED outsideRL

BanLead(k, duration_seconds) == BanLeadSets(k, duration_seconds, banSet)

\* ban_lead, with the call written to the history
BanLeadRecorded(k, duration_seconds) ==
  BanLeadSets(k, duration_seconds,
              [banSet EXCEPT ![k] = [set |-> TRUE, at |-> now, d |-> duration_seconds]])

SpikeDetectedAbove(count) == count > SpikeThreshold

\* spike_detected = len(recent_requests) >= self.spike_threshold
SpikeDetected(count) == count >= SpikeThreshold

DetectSpike(k) ==
  LET spike_window_start == now - Ticks(SpikeWindowSeconds)
      recent_requests == After(requests[k], spike_window_start)
  IN  /\ rlLast' = [op |-> "detect_spike", key |-> k, at |-> now,
                    result |-> SpikeDetected(Len(recent_requests))]
      /\ UNCHANGED <<now, max_requests, requests, bans, admitted, banSet>>
      /\ UNCHANGED outsideRL

GetBanInfo(k) ==
  /\ IF ~bans[k].banned
     THEN /\ rlLast' = [op |-> "get_ban_info", key |-> k, at |-> now, found |-> FALSE]
          /\ UNCHANGED bans
     ELSE IF now <= bans[k].ban_until
     THEN /\ rlLast' = [op |-> "get_ban_info", key |-> k, at |-> now, found |-> TRUE,
                        ban_until |-> bans[k].ban_until, reason |-> bans[k].reason]
          /\ UNCHANGED bans
     ELSE /\ bans' = [bans EXCEPT ![k] = NoBan]
          /\ rlLast' = [op |-> "get_ban_info", key |-> k, at |-> now, found |-> FALSE]
  /\ UNCHANGED <<now, max_requests, requests, admitted, banSet>>
  /\ UNCHANGED outsideRL

MaxTimeRL == Ticks(WindowSeconds) + ExtraTicksRL

\* the history admitted keeps the admissions of the trailing window only
TickRLUpTo(horizon) ==
  /\ now < horizon
  /\ now' = now + 1
  /\ admitted' = [k \in RLKeys |-> After(admitted[k], now' - Ticks(WindowSeconds))]
  /\ UNCHANGED <<max_requests, requests, bans, rlLast, banSet>>
  /\ UNCHANGED outsideRL

TickRL == TickRLUpTo(MaxTimeRL)

InitRL ==
  /\ now = 0
  /\ QueueIdle
  /\ CircuitIdle
  /\ BufferIdle
  /\ max_requests \in 1..MaxRequestsBound
  /\ requests = [k \in RLKeys |-> <<>>]
  /\ bans = [k \in RLKeys |-> NoBan]
  /\ admitted = [k \in RLKeys |-> <<>>]
  /\ rlLast = [op |-> "none"]
  /\ banSet = NeverBanned

\* every operation of the rate limiter, called for one key
OneKey == {1}

NextRL ==
  \/ \E k \in OneKey : CheckRateLimit(k)
  \/ \E k \in OneKey : IsBanned(k)
  \/ \E k \in OneKey, d \in 1..MaxBanSeconds : BanLead(k, d)
  \/ \E k \in OneKey : DetectSpike(k)
  \/ \E k \in OneKey : GetBanInfo(k)
  \/ TickRL

SpecRL == InitRL /\ [][NextRL]_vars

\* one key whose limit may exceed the spike threshold, every ban recorded
InitRLBan ==
  /\ now = 0
  /\ QueueIdle
  /\ CircuitIdle
  /\ BufferIdle
  /\ max_requests \in 1..(SpikeThreshold + 1)
  /\ requests = [k \in RLKeys |-> <<>>]
  /\ bans = [k \in RLKeys |-> NoBan]
  /\ admitted = [k \in RLKeys |-> <<>>]
  /\ rlLast = [op |-> "none"]
  /\ banSet = NeverBanned

\* the longest ban has expired at the last instant
BanHorizon == Ticks(MaxBanSeconds) + 1

NextRLBan ==
  \/ \E k \in OneKey : CheckRateLimit(k)
  \/ \E k \in OneKey : IsBanned(k)
  \/ \E k \in OneKey, d \in 1..MaxBanSeconds : BanLeadRecorded(k, d)
  \/ \E k \in OneKey : DetectSpike(k)
  \/ \E k \in OneKey : GetBanInfo(k)
  \/ TickRLUpTo(BanHorizon)

SpecRLBan == InitRLBan /\ [][NextRLBan]_vars

\* two keys, each exhausted by one admitted request
InitRLKeys ==
  /\ now = 0
  /\ QueueIdle
  /\ CircuitIdle
  /\ BufferIdle
  /\ max_requests = 1
  /\ requests = [k \in RLKeys |-> <<>>]
  /\ bans = [k \in RLKeys |-> NoBan]
  /\ admitted = [k \in RLKeys |-> <<>>]
  /\ rlLast = [op |-> "none"]
  /\ banSet = NeverBanned

NextRLKeys ==
  \/ \E k \in RLKeys : CheckRateLimit(k)
  \/ \E k \in RLKeys : IsBanned(k)
  \/ \E k \in RLKeys : BanLead(k, 1)
  \/ \E k \in RLKeys : DetectSpike(k)
  \/ \E k \in RLKeys : GetBanInfo(k)
  \/ TickRLUpTo(Ticks(WindowSeconds) + 1)

SpecRLKeys == InitRLKeys /\ [][NextRLKeys]_vars

(* ---------------------------------------------------------------------- *)
(* CircuitBreaker (now counts seconds)                                     *)
(* ---------------------------------------------------------------------- *)
TransitionKeepsOpenedAt(st, new_state) == [st EXCEPT !.state_changes = @ + 1]

\* _transition_to: the new statistics; the caller assigns _state
TransitionTo(st, new_state) ==
  [st EXCEPT !.state_changes = @ + 1,
             !.opened_at = IF new_state = "open" THEN now ELSE @]

RecoveryElapsedEarly(elapsed) == elapsed >= RecoveryTimeout - 1

\* if elapsed >= self._recovery_timeout
RecoveryElapsed(elapsed) == elapsed >= RecoveryTimeout

\* _check_state_transition moves the circuit from OPEN to HALF_OPEN
Recovers ==
  /\ cb_state = "open"
  /\ stats.opened_at # NoTime
  /\ RecoveryElapsed(now - stats.opened_at)

BudgetExhaustedLate(n) == n > half_open_max_calls

\* if self._half_open_calls >= self._half_open_max_calls
BudgetExhausted(n) == n >= half_open_max_calls

ThresholdPassed(cf) == cf > failure_threshold

\* elif self._stats.consecutive_failures >= self._failure_threshold
ThresholdReached(cf) == cf >= failure_threshold

FreeSlot(c) == calls[c].pc = "free" /\ \A d \in CallSlots : calls[d].pc = "free" => c <= d

HoldsLockInFn(c) == calls[c].pc = "in_fn"

\* call(), lines 121-136: the async with block is left before func is
\* awaited, so a call holds the lock only within one of its steps
HoldsLock(c) == FALSE

LockFree == \A c \in CallSlots : ~HoldsLock(c)

\* call(): what the caller gets when func returned, when func raised, and
\* when the circuit rejected the call
CallOutcome(how) ==
  CASE how = "returned" -> "result"
    [] how = "raised" -> "error"
    [] how = "rejected" -> "fallback"

WithFallbackUncaught(outcome) == outcome

\* call_with_fallback: except Exception: return fallback()
WithFallback(outcome) == IF outcome = "error" THEN "fallback" ELSE outcome

\* history: the entry point of the call and what its caller got
Returned(via, how) ==
  [via |-> via,
   outcome |-> IF via = "call_with_fallback" THEN WithFallback(CallOutcome(how))
               ELSE CallOutcome(how)]

\* call(): the part under the lock; func starts unless the fallback is returned
CBCallEnters(c, via, ret) ==
  LET st1 == IF Recovers THEN "half_open" ELSE cb_state
      stats1 == IF Recovers THEN TransitionTo(stats, "half_open") ELSE stats
      hoc1 == IF Recovers THEN 0 ELSE half_open_calls
      probes1 == IF Recovers THEN 0 ELSE probesThisPeriod
      fallback == \/ st1 = "open"
                  \/ st1 = "half_open" /\ BudgetExhausted(hoc1)
  IN  /\ cbOps < MaxOpsCB
      /\ LockFree
      /\ IF fallback THEN c = 1 ELSE FreeSlot(c)
      /\ cbOps' = cbOps + 1
      /\ cb_state' = st1
      /\ stats' = stats1
      /\ IF fallback
         THEN /\ half_open_calls' = hoc1
              /\ probesThisPeriod' = probes1
              /\ calls' = calls
              /\ cbReturned' = ret
              /\ cbLastOp' = [op |-> "call", outcome |-> "fallback"]
         ELSE /\ half_open_calls' = IF st1 = "half_open" THEN hoc1 + 1 ELSE hoc1
              /\ probesThisPeriod' = IF st1 = "half_open" THEN probes1 + 1 ELSE probes1
              /\ calls' = [calls EXCEPT ![c] =
                             [pc |-> "in_fn", probe |-> (st1 = "half_open"),
                              opener |-> Recovers, via |-> via]]
              /\ UNCHANGED cbReturned
              /\ cbLastOp' = [op |-> "call", outcome |-> "invoked"]
      /\ UNCHANGED <<now, failure_threshold, half_open_max_calls, failsSinceSuccess>>
      /\ UNCHANGED outsideCB

CBCall(c) == CBCallEnters(c, "call", cbReturned)

\* the same through either entry point, with the caller's outcome recorded
CBCallVia(c, via) == CBCallEnters(c, via, Returned(via, "rejected"))

\* func returned: _record_success
CBSuccessEnds(c, ret) ==
  LET stats1 == [stats EXCEPT !.consecutive_failures = 0,
                              !.total_successes = @ + 1,
                              !.last_success_time = now]
  IN  /\ calls[c].pc = "in_fn"
      /\ IF cb_state = "half_open"
         THEN /\ stats' = TransitionTo(stats1, "closed")
              /\ cb_state' = "closed"
         ELSE /\ stats' = stats1
              /\ UNCHANGED cb_state
      /\ calls' = [calls EXCEPT ![c] = NoCall]
      /\ failsSinceSuccess' = 0
      /\ cbReturned' = ret
      /\ cbLastOp' = [op |-> "success", probe |-> calls[c].probe, opener |-> calls[c].opener]
      /\ UNCHANGED <<now, failure_threshold, half_open_max_calls, half_open_calls,
                     cbOps, probesThisPeriod>>
      /\ UNCHANGED outsideCB

CBSuccess(c) == CBSuccessEnds(c, cbReturned)

CBSuccessVia(c) ==
  /\ calls[c].pc = "in_fn"
  /\ CBSuccessEnds(c, Returned(calls[c].via, "returned"))

\* func raised: _record_failure, then the error is raised to the caller
CBFailureEnds(c, ret) ==
  LET stats1 == [stats EXCEPT !.consecutive_failures = @ + 1,
                              !.total_failures = @ + 1,
                              !.last_failure_time = now]
  IN  /\ calls[c].pc = "in_fn"
      /\ IF cb_state = "half_open"
         THEN /\ stats' = TransitionTo(stats1, "open")
              /\ cb_state' = "open"
         ELSE IF ThresholdReached(stats1.consecutive_failures)
         THEN /\ stats' = TransitionTo(stats1, "open")
              /\ cb_state' = "open"
         ELSE /\ stats' = stats1
              /\ UNCHANGED cb_state
      /\ calls' = [calls EXCEPT ![c] = NoCall]
      /\ failsSinceSuccess' = failsSinceSuccess + 1
      /\ cbReturned' = ret
      /\ cbLastOp' = [op |-> "failure", probe |-> calls[c].probe, opener |-> calls[c].opener]
      /\ UNCHANGED <<now, failure_threshold, half_open_max_calls, half_open_calls,
                     cbOps, probesThisPeriod>>
      /\ UNCHANGED outsideCB

CBFailure(c) == CBFailureEnds(c, cbReturned)

CBFailureVia(c) ==
  /\ calls[c].pc = "in_fn"
  /\ CBFailureEnds(c, Returned(calls[c].via, "raised"))

CBReset ==
  /\ cbOps < MaxOpsCB
  /\ LockFree
  /\ cbOps' = cbOps + 1
  /\ cb_state' = "closed"
  /\ stats' = [TransitionTo(stats, "closed") EXCEPT !.consecutive_failures = 0]
  /\ half_open_calls' = 0
  /\ cbLastOp' = [op |-> "reset"]
  /\ UNCHANGED <<now, failure_threshold, half_open_max_calls, calls, probesThisPeriod,
                 failsSinceSuccess, cbReturned>>
  /\ UNCHANGED outsideCB

CBForceOpen ==
  /\ cbOps < MaxOpsCB
  /\ LockFree
  /\ cbOps' = cbOps + 1
  /\ cb_state' = "open"
  /\ stats' = TransitionTo(stats, "open")
  /\ cbLastOp' = [op |-> "force_open"]
  /\ UNCHANGED <<now, failure_threshold, half_open_max_calls, half_open_calls, calls,
                 probesThisPeriod, failsSinceSuccess, cbReturned>>
  /\ UNCHANGED outsideCB

TickCB ==
  /\ now < MaxTimeCB
  /\ now' = now + 1
  /\ cbLastOp' = [op |-> "tick"]
  /\ UNCHANGED <<failure_threshold, half_open_max_calls, cb_state, stats, half_open_calls,
                 calls, cbOps, probesThisPeriod, failsSinceSuccess, cbReturned>>
  /\ UNCHANGED outsideCB

InitCB ==
  /\ now = 0
  /\ QueueIdle
  /\ RateLimiterIdle
  /\ BufferIdle
  /\ failure_threshold \in 1..FailureThresholdBound
  /\ half_open_max_calls \in 1..HalfOpenMaxBound
  /\ cb_state = "closed"
  /\ stats = CircuitStats
  /\ half_open_calls = 0
  /\ calls = [c \in CallSlots |-> NoCall]
  /\ cbOps = 0
  /\ cbLastOp = [op |-> "none"]
  /\ cbReturned = [via |-> "none"]
  /\ probesThisPeriod = 0
  /\ failsSinceSuccess = 0

NextCB ==
  \/ \E c \in CallSlots : CBCall(c)
  \/ \E c \in CallSlots : CBSuccess(c)
  \/ \E c \in CallSlots : CBFailure(c)
  \/ CBReset
  \/ CBForceOpen
  \/ TickCB

SpecCB == InitCB /\ [][NextCB]_vars

\* callers that use call() and callers that use call_with_fallback()
EntryPoints == {"call", "call_with_fallback"}

NextCBVia ==
  \/ \E c \in CallSlots, via \in EntryPoints : CBCallVia(c, via)
  \/ \E c \in CallSlots : CBSuccessVia(c)
  \/ \E c \in CallSlots : CBFailureVia(c)
  \/ TickCB

SpecCBVia == InitCB /\ [][NextCBVia]_vars

(* ---------------------------------------------------------------------- *)
(* MessageBuffer (now counts seconds)                                      *)
(* ---------------------------------------------------------------------- *)
RECURSIVE Join(_)
\* self._separator.join(bodies)
Join(bodies) ==
  IF Len(bodies) <= 1 THEN bodies
  ELSE <<Head(bodies), Separator>> \o Join(Tail(bodies))

Bodies(msgs) == [i \in 1..Len(msgs) |-> msgs[i].body]

TimerLive(t) == t # NoTimer /\ timers[t].pc # "done"

CancelNever(g) == FALSE

\* if lead_buffer.flush_task and not lead_buffer.flush_task.done()
CancelNeeded(g) == TimerLive(g.flush_task)

TimersKept(t) == timers

\* the timers and the lock queue once add has cancelled and awaited t
TimersWithout(t) == [timers EXCEPT ![t] = TimerDone]

WaitersWithout(q, t) == SelectSeq(q, LAMBDA w : ~(w.kind = "timer" /\ w.tid = t))

MaxPassed(count) == count > max_messages

\* if message_count >= self._max_messages
MaxReached(count) == count >= max_messages

\* _flush_lead up to the await of on_flush: the arguments of the callback
Flush(g, phone, by, t) ==
  [active |-> TRUE, by |-> by, tid |-> t, phone |-> phone,
   combined_body |-> Join(Bodies(g.messages)),
   first_sid |-> g.messages[1].message_sid,
   profile_name |-> g.profile_name]

Flushed(f, phone) ==
  [n |-> lastFlush.n + 1, phone |-> phone, by |-> f.by, at |-> now,
   combined_body |-> f.combined_body, first_sid |-> f.first_sid,
   profile_name |-> f.profile_name, expected |-> hist[phone]]

\* history: one more invocation for every body that on_flush call f is given
Offer(f) ==
  [i \in AddIds |->
     offered[i] + Len(SelectSeq(f.combined_body, LAMBDA x : x = i))]

\* history: an add that has run
Executed(a) == [body |-> a.id, at |-> a.at, profile_name |-> a.profile_name]

NextProfileAlways(old, new) == new

\* if profile_name: lead_buffer.profile_name = profile_name
NextProfile(old, new) == IF new # "" THEN new ELSE old

PoppedNever(k) == buffers

PoppedKeptEmpty(k) == [buffers EXCEPT ![k].messages = <<>>]

\* _flush_lead, line 177: self._buffers.pop(phone, None)
Popped(k) == [buffers EXCEPT ![k] = NoGroup]

\* get_pending_count: len(self._buffers), read under the lock
GetPendingCount == Cardinality({k \in Phones : buffers[k].present})

\* add is called and waits for the lock
BufAdd(phone, profile_name) ==
  /\ addCount < MaxAdds
  /\ now <= MaxTimeBuf
  /\ addCount' = addCount + 1
  /\ lockq' = Append(lockq, [kind |-> "add", phone |-> phone, id |-> addCount + 1,
                             profile_name |-> profile_name, at |-> now])
  /\ UNCHANGED <<now, max_messages, buffers, timers, flushing, hist, lastFlush, offered>>
  /\ UNCHANGED favars
  /\ UNCHANGED lastError
  /\ UNCHANGED outsideBuf

\* add: the body under the lock, up to the await of on_flush or to the return
AddLocked ==
  /\ ~flushing.active
  /\ lockq # <<>>
  /\ Head(lockq).kind = "add"
  /\ LET a == Head(lockq)
         g0 == IF buffers[a.phone].present THEN buffers[a.phone]
               ELSE [present |-> TRUE, profile_name |-> a.profile_name,
                     messages |-> <<>>, flush_task |-> NoTimer]
         cancel == CancelNeeded(g0)
         timers1 == IF cancel THEN TimersWithout(g0.flush_task) ELSE timers
         lockq1 == IF cancel THEN WaitersWithout(Tail(lockq), g0.flush_task)
                   ELSE Tail(lockq)
         g1 == [g0 EXCEPT !.messages = Append(@, [body |-> a.id, message_sid |-> a.id]),
                          !.profile_name = NextProfile(@, a.profile_name)]
     IN  /\ lockq' = lockq1
         /\ hist' = IF MaxReached(Len(g1.messages))
                    THEN [hist EXCEPT ![a.phone] = <<>>]
                    ELSE [hist EXCEPT ![a.phone] = Append(@, Executed(a))]
         /\ IF MaxReached(Len(g1.messages))
            THEN /\ buffers' = Popped(a.phone)
                 /\ timers' = timers1
                 /\ flushing' = Flush(g1, a.phone, "add", NoTimer)
                 /\ lastFlush' =
                      [Flushed(Flush(g1, a.phone, "add", NoTimer), a.phone)
                         EXCEPT !.expected = Append(@, Executed(a))]
                 /\ offered' = Offer(Flush(g1, a.phone, "add", NoTimer))
            ELSE /\ buffers' = [buffers EXCEPT ![a.phone] =
                                  [g1 EXCEPT !.flush_task = a.id]]
                 /\ timers' = [timers1 EXCEPT ![a.id] =
                                 [pc |-> "sleeping", phone |-> a.phone,
                                  fire_at |-> now + BufferSeconds]]
                 /\ UNCHANGED <<flushing, lastFlush, offered>>
  /\ UNCHANGED <<now, max_messages, addCount>>
  /\ UNCHANGED favars
  /\ UNCHANGED lastError
  /\ UNCHANGED outsideBuf

\* _scheduled_flush: the sleep is over, the task waits for the lock
TimerElapsed(t) ==
  /\ timers[t].pc = "sleeping"
  /\ now >= timers[t].fire_at
  /\ timers' = [timers EXCEPT ![t].pc = "waiting"]
  /\ lockq' = Append(lockq, [kind |-> "timer", tid |-> t])
  /\ UNCHANGED <<now, max_messages, buffers, flushing, addCount, hist, lastFlush, offered>>
  /\ UNCHANGED favars
  /\ UNCHANGED lastError
  /\ UNCHANGED outsideBuf

\* _scheduled_flush: under the lock, up to the await of on_flush or to the end
ScheduledFlushLocked ==
  /\ ~flushing.active
  /\ lockq # <<>>
  /\ Head(lockq).kind = "timer"
  /\ LET t == Head(lockq).tid
         phone == timers[t].phone
         g == buffers[phone]
     IN  /\ lockq' = Tail(lockq)
         /\ IF g.present /\ g.messages # <<>>
            THEN /\ buffers' = Popped(phone)
                 /\ timers' = [timers EXCEPT ![t].pc = "flushing"]
                 /\ flushing' = Flush(g, phone, "timer", t)
                 /\ lastFlush' = Flushed(Flush(g, phone, "timer", t), phone)
                 /\ offered' = Offer(Flush(g, phone, "timer", t))
                 /\ hist' = [hist EXCEPT ![phone] = <<>>]
            ELSE /\ buffers' = Popped(phone)
                 /\ timers' = TimersWithout(t)
                 /\ UNCHANGED <<flushing, lastFlush, offered, hist>>
  /\ UNCHANGED <<now, max_messages, addCount>>
  /\ UNCHANGED favars
  /\ UNCHANGED lastError
  /\ UNCHANGED outsideBuf

\* on_flush returns or raises: either way the lock is released and the add
\* (which raises the error again) or the timer task (which logs it) ends
OnFlushEnds(err) ==
  /\ flushing.active
  /\ flushing.by \in {"add", "timer"}
  /\ flushing' = NotFlushing
  /\ timers' = IF flushing.by = "timer" THEN TimersWithout(flushing.tid) ELSE timers
  /\ lastError' = err
  /\ UNCHANGED <<now, max_messages, buffers, lockq, addCount, hist, lastFlush, offered>>
  /\ UNCHANGED favars
  /\ UNCHANGED outsideBuf

OnFlushOver == OnFlushEnds(lastError)

CaughtNowhere(by) == FALSE

\* _scheduled_flush, line 164: except Exception; add and flush_all have no
\* handler around _flush_lead
Caught(by) == by = "timer"

\* history: the error on_flush raised in the running flush ends in the frame
\* that catches it, or goes to the caller of the call that awaited _flush_lead
RaisedError ==
  [n |-> lastFlush.n, by |-> flushing.by,
   to |-> IF Caught(flushing.by) THEN "nobody" ELSE flushing.by]

\* on_flush raises in a forced flush or in a timer flush
OnFlushRaise == OnFlushEnds(RaisedError)

\* list(self._buffers.keys()): the phones in the order their groups were made
RECURSIVE KeysInOrder(_)
KeysInOrder(S) ==
  IF S = {} THEN <<>>
  ELSE LET k == CHOOSE x \in S :
                  \A y \in S : buffers[x].messages[1].body <= buffers[y].messages[1].body
       IN  <<k>> \o KeysInOrder(S \ {k})

\* flush_all goes on to the next phone and waits for the lock, or ends
FlushAllNext(phones) ==
  IF phones = <<>> THEN NoFlushAll ELSE [pc |-> "next", phones |-> phones]

WaitForNext(q, phones) ==
  IF phones = <<>> THEN q ELSE Append(q, [kind |-> "flush_all"])

\* flush_all is called and waits for the lock
FlushAllCallSets(groups) ==
  /\ flushAll.pc = "idle"
  /\ flushAlls < MaxFlushAlls
  /\ now <= MaxTimeBuf
  /\ flushAlls' = flushAlls + 1
  /\ flushAll' = [pc |-> "snapshot"]
  /\ lockq' = Append(lockq, [kind |-> "flush_all"])
  /\ faGroups' = groups
  /\ UNCHANGED <<now, max_messages, buffers, timers, flushing, addCount, hist, lastFlush, offered>>
  /\ UNCHANGED lastError
  /\ UNCHANGED outsideBuf

FlushAllCall == FlushAllCallSets(faGroups)

\* history: each phone's group, named by the sid of its first message
Outstanding ==
  [k \in Phones |-> IF buffers[k].present THEN buffers[k].messages[1].message_sid ELSE 0]

\* the same call, with the groups that exist at the call recorded
FlushAllCallRecorded == FlushAllCallSets(Outstanding)

\* flush_all: the phones are listed under the lock
FlushAllSnapshot ==
  /\ ~flushing.active
  /\ lockq # <<>>
  /\ Head(lockq).kind = "flush_all"
  /\ flushAll.pc = "snapshot"
  /\ LET phones == KeysInOrder({k \in Phones : buffers[k].present})
     IN  /\ flushAll' = FlushAllNext(phones)
         /\ lockq' = WaitForNext(Tail(lockq), phones)
  /\ UNCHANGED <<now, max_messages, buffers, timers, flushing, addCount, hist, lastFlush, offered,
                 flushAlls>>
  /\ UNCHANGED lastError
  /\ UNCHANGED faGroups
  /\ UNCHANGED outsideBuf

\* flush_all: one phone under the lock, up to the await of on_flush
FlushAllLocked ==
  /\ ~flushing.active
  /\ lockq # <<>>
  /\ Head(lockq).kind = "flush_all"
  /\ flushAll.pc = "next"
  /\ LET phone == Head(flushAll.phones)
         g == buffers[phone]
         cancel == g.present /\ CancelNeeded(g)
     IN  IF g.present
         THEN /\ buffers' = Popped(phone)
              /\ timers' = IF cancel THEN TimersWithout(g.flush_task) ELSE timers
              /\ lockq' = IF cancel THEN WaitersWithout(Tail(lockq), g.flush_task)
                          ELSE Tail(lockq)
              /\ flushing' = Flush(g, phone, "flush_all", NoTimer)
              /\ lastFlush' = Flushed(Flush(g, phone, "flush_all", NoTimer), phone)
              /\ offered' = Offer(Flush(g, phone, "flush_all", NoTimer))
              /\ hist' = [hist EXCEPT ![phone] = <<>>]
              /\ flushAll' = [flushAll EXCEPT !.pc = "flushing"]
         ELSE /\ flushAll' = FlushAllNext(Tail(flushAll.phones))
              /\ lockq' = WaitForNext(Tail(lockq), Tail(flushAll.phones))
              /\ UNCHANGED <<buffers, timers, flushing, lastFlush, offered, hist>>
  /\ UNCHANGED <<now, max_messages, addCount, flushAlls>>
  /\ UNCHANGED lastError
  /\ UNCHANGED faGroups
  /\ UNCHANGED outsideBuf

\* on_flush returns to flush_all, which goes on to the next phone
FlushAllCallbackReturn ==
  /\ flushing.active
  /\ flushing.by = "flush_all"
  /\ flushing' = NotFlushing
  /\ flushAll' = FlushAllNext(Tail(flushAll.phones))
  /\ lockq' = WaitForNext(lockq, Tail(flushAll.phones))
  /\ UNCHANGED <<now, max_messages, buffers, timers, addCount, hist, lastFlush, offered, flushAlls>>
  /\ UNCHANGED lastError
  /\ UNCHANGED faGroups
  /\ UNCHANGED outsideBuf

\* on_flush raises: _flush_lead raises it again and flush_all ends with it
FlushAllCallbackEnds(err) ==
  /\ flushing.active
  /\ flushing.by = "flush_all"
  /\ flushing' = NotFlushing
  /\ flushAll' = NoFlushAll
  /\ lastError' = err
  /\ UNCHANGED <<now, max_messages, buffers, timers, lockq, addCount, hist, lastFlush, offered,
                 flushAlls>>
  /\ UNCHANGED faGroups
  /\ UNCHANGED outsideBuf

FlushAllCallbackRaise == FlushAllCallbackEnds(lastError)

\* the same step, with the error recorded
FlushAllCallbackRaiseRecorded == FlushAllCallbackEnds(RaisedError)

\* a coroutine that can run without waiting runs before the clock moves on
Runnable ==
  \/ ~flushing.active /\ lockq # <<>>
  \/ \E t \in AddIds : timers[t].pc = "sleeping" /\ timers[t].fire_at <= now

TickBuf ==
  /\ ~Runnable
  /\ \/ now < MaxTimeBuf
     \/ \E t \in AddIds : timers[t].pc = "sleeping"
  /\ now' = now + 1
  /\ UNCHANGED bufvars
  /\ UNCHANGED outsideBuf

InitBuf ==
  /\ now = 0
  /\ QueueIdle
  /\ RateLimiterIdle
  /\ CircuitIdle
  /\ max_messages \in 2..MaxMessagesBound
  /\ buffers = [k \in Phones |-> NoGroup]
  /\ timers = [t \in AddIds |-> TimerDone]
  /\ lockq = <<>>
  /\ flushing = NotFlushing
  /\ addCount = 0
  /\ hist = [k \in Phones |-> <<>>]
  /\ lastFlush = NoFlush
  /\ offered = [i \in AddIds |-> 0]
  /\ flushAll = NoFlushAll
  /\ flushAlls = 0
  /\ faGroups = NoGroups
  /\ lastError = NoError

NextBufLive ==
  \/ \E k \in Phones : BufAdd(k, "")
  \/ AddLocked
  \/ \E t \in AddIds : TimerElapsed(t)
  \/ ScheduledFlushLocked
  \/ OnFlushOver
  \/ TickBuf

FlushAllSteps ==
  \/ FlushAllCall
  \/ FlushAllSnapshot
  \/ FlushAllLocked
  \/ FlushAllCallbackReturn
  \/ FlushAllCallbackRaise

\* two phones, no profile names
NextBuf ==
  \/ \E k \in Phones : BufAdd(k, "")
  \/ AddLocked
  \/ \E t \in AddIds : TimerElapsed(t)
  \/ ScheduledFlushLocked
  \/ OnFlushOver
  \/ FlushAllSteps
  \/ TickBuf

\* one phone, with and without profile names
NextBufMeta ==
  \/ \E p \in ProfileNames : BufAdd(1, p)
  \/ AddLocked
  \/ \E t \in AddIds : TimerElapsed(t)
  \/ ScheduledFlushLocked
  \/ OnFlushOver
  \/ FlushAllSteps
  \/ TickBuf

FairBuf ==
  /\ WF_vars(AddLocked)
  /\ WF_vars(ScheduledFlushLocked)
  /\ WF_vars(OnFlushOver)
  /\ WF_vars(TickBuf)
  /\ \A t \in AddIds : WF_vars(TimerElapsed(t))

SpecBuf == InitBuf /\ [][NextBuf]_vars

SpecBufMeta == InitBuf /\ [][NextBufMeta]_vars

\* one phone, and an on_flush that may raise in every kind of flush
NextBufErr ==
  \/ BufAdd(1, "")
  \/ AddLocked
  \/ \E t \in AddIds : TimerElapsed(t)
  \/ ScheduledFlushLocked
  \/ OnFlushOver
  \/ OnFlushRaise
  \/ FlushAllCall
  \/ FlushAllSnapshot
  \/ FlushAllLocked
  \/ FlushAllCallbackReturn
  \/ FlushAllCallbackRaiseRecorded
  \/ TickBuf

SpecBufErr == InitBuf /\ [][NextBufErr]_vars

\* two phones, an on_flush that may raise, and flush_all with its groups recorded
NextBufAll ==
  \/ \E k \in Phones : BufAdd(k, "")
  \/ AddLocked
  \/ \E t \in AddIds : TimerElapsed(t)
  \/ ScheduledFlushLocked
  \/ OnFlushOver
  \/ OnFlushRaise
  \/ FlushAllCallRecorded
  \/ FlushAllSnapshot
  \/ FlushAllLocked
  \/ FlushAllCallbackReturn
  \/ FlushAllCallbackRaiseRecorded
  \/ TickBuf

SpecBufAll == InitBuf /\ [][NextBufAll]_vars

InitBufLive == InitBuf /\ max_messages = MaxMessagesBound

SpecBufLive == InitBufLive /\ [][NextBufLive]_vars /\ FairBuf

\* the event loop runs every coroutine that is ready: the waiters for the
\* lock get it in turn, and every on_flush call ends, by returning or raising
FairBufErr ==
  /\ FairBuf
  /\ WF_vars(FlushAllSnapshot)
  /\ WF_vars(FlushAllLocked)
  /\ WF_vars(FlushAllCallbackReturn)

\* one phone, an on_flush that may raise in every kind of flush, and progress
SpecBufErrLive == InitBufLive /\ [][NextBufErr]_vars /\ FairBufErr

(* ---------------------------------------------------------------------- *)
(* Claims about the queue and the worker                                   *)
(* ---------------------------------------------------------------------- *)
Accepted(i) == i \in DOMAIN messages
StatusIs(i, S) == Accepted(i) /\ messages[i].status \in S
HandedToProcessor(i) == \E t \in InHandler : tasks[t].msg = i

\* C1: while the worker runs and time advances, every accepted item that is
\* Pending is eventually handed to the Processor, and every accepted item
\* eventually reaches status Completed or DeadLetter.
C1_EventuallySettled ==
  \A i \in Ids :
    /\ StatusIs(i, {"pending"}) ~> HandedToProcessor(i)
    /\ Accepted(i) ~> StatusIs(i, {"completed", "dead_letter"})

\* an item that failed, waited out its retry delay and was then completed
C1_Witness ==
  \E i \in Ids : StatusIs(i, {"completed"}) /\ messages[i].retry_count >= 1

ClaimedLadder == <<60, 300, 900, 3600, 21600>>

\* C2: the k-th Fail of an item (counted since it was admitted) with k <= m
\* returns it to Pending with retryCount = k and scheduledAt = now +
\* ladder[min(k-1, 4)]; the (m+1)-th Fail dead-letters it without re-queuing.
C2_RetryLadder ==
  [][\A i \in Ids :
       (Accepted(i) /\ failCalls'[i] = failCalls[i] + 1) =>
         LET k == failCalls'[i]
             m == messages[i].max_retries
         IN  /\ k <= m + 1
             /\ messages'[i].retry_count = k
             /\ IF k <= m
                THEN /\ messages'[i].status = "pending"
                     /\ messages'[i].scheduled_at = now + ClaimedLadder[Min(k - 1, 4) + 1]
                     /\ pending_queue' = Append(pending_queue, i)
                     /\ i \notin dead_letter'
                ELSE /\ messages'[i].status = "dead_letter"
                     /\ i \in dead_letter'
                     /\ pending_queue' = pending_queue]_vars

\* an item with maxRetries >= 6 was failed through the whole ladder, the
\* clamped 6-hour step included, and dead-lettered by its last failure
C2_Witness ==
  \E i \in Ids :
    /\ StatusIs(i, {"dead_letter"})
    /\ messages[i].max_retries >= 6
    /\ failCalls[i] = messages[i].max_retries + 1

\* C3: every spawned unit that has ended invoked the Processor once and then
\* called exactly one of Complete and Fail, exactly once.
C3_ExactlyOneOutcome ==
  lastEnded.how # "none" =>
    /\ lastEnded.invoked = 1
    /\ lastEnded.completes + lastEnded.fails = 1

\* C4: the number of Processor invocations in progress never exceeds
\* maxConcurrent.
C4_ConcurrencyBound == Cardinality(InHandler) <= max_concurrent

\* the budget is used up and a further spawned unit waits for a slot
C4_Witness ==
  /\ Cardinality(InHandler) = max_concurrent
  /\ \E t \in Active : tasks[t].pc = "sem_wait"

(* ---------------------------------------------------------------------- *)
(* Claims about the rate limiter                                           *)
(* ---------------------------------------------------------------------- *)
InWindow(k) == Len(admitted[k])

\* C5: for every key the number of Checks admitted within the trailing
\* windowSeconds (now - windowSeconds, now] is at most maxRequests; a Check
\* made while maxRequests admitted timestamps lie in the window is denied
\* with retryAfter > 0, and one made while fewer lie in it is admitted.
C5_SlidingWindow ==
  /\ \A k \in RLKeys : InWindow(k) <= max_requests
  /\ rlLast.op = "check" =>
       /\ rlLast.seen >= max_requests => ~rlLast.allowed /\ rlLast.retry_after > 0
       /\ rlLast.seen < max_requests => rlLast.allowed

\* a key is denied although admissions older than the window have expired:
\* the window slid and filled up again
C5_Witness ==
  /\ rlLast.op = "check"
  /\ ~rlLast.allowed
  /\ rlLast.at > Ticks(WindowSeconds)

(* ---------------------------------------------------------------------- *)
(* Claims about the circuit breaker                                        *)
(* ---------------------------------------------------------------------- *)
CallEntered == cbOps' = cbOps + 1 /\ cbLastOp'.op = "call"
FailureRecorded == stats'.total_failures = stats.total_failures + 1
SuccessRecorded == stats'.total_successes = stats.total_successes + 1
OpensFromClosed == cb_state = "closed" /\ cb_state' = "open"
ReachesThreshold == FailureRecorded /\ stats'.consecutive_failures = failure_threshold
OpenedFor == now - stats.opened_at
ForceOpened == cbOps' = cbOps + 1 /\ cbLastOp'.op = "force_open"
ProbeEnds(c) == calls[c].pc = "in_fn" /\ calls[c].opener /\ calls'[c].pc = "free"

\* C6 as stated: a Closed circuit opens exactly when a failing call brings
\* consecutive_failures to failure_threshold, every success resets the count
\* to 0, and it opens only after failure_threshold failures with no success
\* between them.
C6_ClosedOpensOnlyByFailures ==
  [][ /\ OpensFromClosed <=> (cb_state = "closed" /\ ReachesThreshold)
      /\ OpensFromClosed => failsSinceSuccess' >= failure_threshold
      /\ SuccessRecorded => stats'.consecutive_failures = 0 ]_vars

\* C6 amended: a Closed circuit opens exactly when a failing call brings
\* consecutive_failures to failure_threshold or force_open is called; every
\* success resets the count to 0; without force_open a Closed circuit opens
\* only after failure_threshold failures with no success between them.
C6_ClosedOpensByFailuresOrForce ==
  [][ /\ OpensFromClosed <=> (cb_state = "closed" /\ (ReachesThreshold \/ ForceOpened))
      /\ (OpensFromClosed /\ ~ForceOpened)
            => failsSinceSuccess' >= failure_threshold
      /\ SuccessRecorded => stats'.consecutive_failures = 0 ]_vars

C6_Witness ==
  /\ cbLastOp.op = "failure"
  /\ cb_state = "open"
  /\ stats.state_changes = 1
  /\ failure_threshold = 2
  /\ stats.consecutive_failures = 2
  /\ stats.total_successes >= 1

C8_Recovery ==
  /\ (cb_state = "open" /\ OpenedFor >= RecoveryTimeout /\ CallEntered)
        => /\ cb_state' = "half_open"
           /\ \E c \in CallSlots : calls[c].pc = "free" /\ calls'[c].pc = "in_fn"
                                    /\ calls'[c].opener
  /\ (cb_state = "open" /\ cb_state' = "half_open") => OpenedFor >= RecoveryTimeout

\* C8 as stated: an Open circuit whose recovery_timeout has elapsed goes to
\* HalfOpen on the next call, which runs fn as a probe; the probe's success
\* closes the circuit, its failure reopens it with opened_at set to the time
\* of the failure; Open never becomes HalfOpen before the timeout.
C8_ProbeDecides ==
  [][ /\ C8_Recovery
      /\ \A c \in CallSlots :
            /\ (ProbeEnds(c) /\ SuccessRecorded) => cb_state' = "closed"
            /\ (ProbeEnds(c) /\ FailureRecorded)
                  => cb_state' = "open" /\ stats'.opened_at = now ]_vars

\* C8 amended: as stated, but the probe's outcome decides only if the
\* circuit is HalfOpen when the probe ends: then success closes it and
\* failure reopens it with opened_at set to the time of the failure.
C8_ProbeDecidesWhileHalfOpen ==
  [][ /\ C8_Recovery
      /\ \A c \in CallSlots :
            /\ (cb_state = "half_open" /\ ProbeEnds(c) /\ SuccessRecorded)
                  => cb_state' = "closed"
            /\ (cb_state = "half_open" /\ ProbeEnds(c) /\ FailureRecorded)
                  => cb_state' = "open" /\ stats'.opened_at = now ]_vars

C8_Witness ==
  /\ cbLastOp = [op |-> "failure", probe |-> TRUE, opener |-> TRUE]
  /\ cb_state = "open"
  /\ stats.opened_at = now
  /\ stats.state_changes = 3
  /\ now >= RecoveryTimeout

\* C9: in one HalfOpen period at most half_open_max_calls calls start fn,
\* whatever the interleaving, and a call that arrives while the circuit is
\* HalfOpen with that budget used returns the fallback without starting fn.
C9_ProbeBudget ==
  /\ [](probesThisPeriod <= half_open_max_calls)
  /\ [][ (cb_state = "half_open" /\ probesThisPeriod >= half_open_max_calls
            /\ CallEntered)
          => cbLastOp'.outcome = "fallback" /\ calls' = calls ]_vars

C9_Witness ==
  /\ cbLastOp = [op |-> "call", outcome |-> "fallback"]
  /\ cb_state = "half_open"
  /\ half_open_max_calls = 2
  /\ probesThisPeriod = 2
  /\ \A c \in CallSlots : calls[c].pc = "in_fn"

(* ---------------------------------------------------------------------- *)
(* Claims about the message buffer                                         *)
(* ---------------------------------------------------------------------- *)
Payloads(body) == SelectSeq(body, LAMBDA x : x # Separator)
ExpectedBodies(f) == [i \in 1..Len(f.expected) |-> f.expected[i].body]
TimerFlushed == lastFlush'.n = lastFlush.n + 1 /\ lastFlush'.by = "timer"
Buffered(k) == hist[k] # <<>>
FlushedAll(k) == hist[k] = <<>> /\ lastFlush.n > 0 /\ ~buffers[k].present

\* a flush by the timer carries the payloads of all adds executed for the
\* phone since its last flush, in arrival order, not before the quiet period
\* has passed since the last of them arrived, and leaves out no add that
\* arrived within the quiet period
CoalescedFlush ==
  TimerFlushed =>
    LET f == lastFlush'
        e == f.expected
    IN  /\ Len(e) >= 1
        /\ Len(e) < max_messages
        /\ Payloads(f.combined_body) = ExpectedBodies(f)
        /\ \A i \in 1..Len(e) : \A j \in 1..Len(e) : i < j => e[i].body < e[j].body
        /\ f.at >= e[Len(e)].at + BufferSeconds
        /\ \A i \in 1..Len(lockq') :
              (lockq'[i].kind = "add" /\ lockq'[i].phone = f.phone)
                => lockq'[i].at >= e[Len(e)].at + BufferSeconds

\* an add that arrived after the last flush of its phone and is the first to
\* run since then starts a group of its own
FreshGroup ==
  \A k \in Phones :
    (/\ hist[k] = <<>>
     /\ Len(hist'[k]) = 1
     /\ lastFlush.n > 0
     /\ lastFlush.phone = k
     /\ hist'[k][1].at >= lastFlush.at)
      => /\ buffers'[k].present
         /\ Bodies(buffers'[k].messages) = <<hist'[k][1].body>>
         /\ timers'[buffers'[k].flush_task].pc = "sleeping"

\* C10: adds for one phone that follow each other within the quiet period,
\* fewer than max_messages of them, end in one flush: it comes, it comes no
\* earlier than the quiet period after the last of them, it carries all their
\* payloads in arrival order, and an add arriving after it starts a new group.
C10_Coalescing ==
  /\ [][CoalescedFlush /\ FreshGroup]_vars
  /\ \A k \in Phones : Buffered(k) ~> FlushedAll(k)

C10_Witness ==
  /\ lastFlush.n > 0
  /\ lastFlush.by = "timer"
  /\ Len(lastFlush.expected) = 2
  /\ lastFlush.expected[2].at > lastFlush.expected[1].at
  /\ lastFlush.expected[2].at < lastFlush.expected[1].at + BufferSeconds
  /\ Payloads(lastFlush.combined_body) = <<1, 2>>
  /\ buffers[lastFlush.phone].present
  /\ Len(buffers[lastFlush.phone].messages) = 1

AddRuns == ~flushing.active /\ lockq # <<>> /\ Head(lockq).kind = "add" /\ hist' # hist
NoTimerAfter(k) == \A t \in AddIds : timers'[t].pc # "done" => timers'[t].phone # k
AddReturnsFromFlush == flushing.active /\ flushing.by = "add" /\ ~flushing'.active

\* C11: the add that brings a phone's group to max_messages messages invokes
\* on_flush with all of them in the step in which it runs, before it returns
\* and whatever the quiet period, and when it returns the phone has neither a
\* group nor a live timer.
C11_ForcedFlush ==
  [][ /\ (AddRuns /\ Len(hist[Head(lockq).phone]) = max_messages - 1)
          => LET a == Head(lockq)
             IN  /\ lastFlush'.n = lastFlush.n + 1
                 /\ lastFlush'.by = "add"
                 /\ lastFlush'.phone = a.phone
                 /\ lastFlush'.at = now
                 /\ flushing'.active /\ flushing'.by = "add"
                 /\ flushing'.combined_body = lastFlush'.combined_body
                 /\ Len(Payloads(lastFlush'.combined_body)) = max_messages
                 /\ Payloads(lastFlush'.combined_body)
                      = [i \in 1..Len(hist[a.phone]) |-> hist[a.phone][i].body] \o <<a.id>>
                 /\ ~buffers'[a.phone].present
                 /\ NoTimerAfter(a.phone)
      /\ AddReturnsFromFlush
          => ~buffers'[flushing.phone].present /\ NoTimerAfter(flushing.phone) ]_vars

C11_Witness ==
  /\ lastFlush.n > 0
  /\ lastFlush.by = "add"
  /\ ~flushing.active
  /\ max_messages = 3
  /\ Len(lastFlush.expected) = 3
  /\ lastFlush.at < lastFlush.expected[3].at + BufferSeconds
  /\ lastFlush.expected[2].at > lastFlush.expected[1].at

FlushInvoked == lastFlush'.n = lastFlush.n + 1
Named(e) == {i \in 1..Len(e) : e[i].profile_name # ""}
LastOf(S) == CHOOSE i \in S : \A j \in S : j <= i

\* C12: every on_flush invocation receives the bodies of the group in arrival
\* order with the separator between them, the sid of the first message and
\* the last non-empty profile name given to the group; an add without a
\* profile name does not replace an earlier one.
C12_FlushArguments ==
  [][ FlushInvoked =>
        LET f == lastFlush'
            e == f.expected
            body == flushing'.combined_body
        IN  /\ flushing'.active /\ flushing'.phone = f.phone
            /\ Len(e) >= 1
            /\ Len(body) = Len(e) + Len(e) - 1
            /\ \A i \in 1..Len(e) : body[i + i - 1] = e[i].body
            /\ \A i \in 1..(Len(e) - 1) : body[i + i] = Separator
            /\ \A i \in 1..Len(e) : \A j \in 1..Len(e) : i < j => e[i].body < e[j].body
            /\ flushing'.first_sid = e[1].body
            /\ Named(e) # {} => flushing'.profile_name = e[LastOf(Named(e))].profile_name
            /\ Named(e) = {} => flushing'.profile_name = "" ]_vars

C12_Witness ==
  /\ lastFlush.n > 0
  /\ Len(lastFlush.expected) = 3
  /\ lastFlush.expected[1].profile_name = "ana"
  /\ lastFlush.expected[2].profile_name = "bea"
  /\ lastFlush.expected[3].profile_name = ""
  /\ lastFlush.profile_name = "bea"
  /\ lastFlush.combined_body = <<1, Separator, 2, Separator, 3>>

TimersOf(k) == {t \in AddIds : timers[t].pc # "done" /\ timers[t].phone = k}
PendingTimersOf(k) == {t \in TimersOf(k) : timers[t].pc \in {"sleeping", "waiting"}}

\* every phone has at most one timer, and a pending timer is the flush_task
\* of the phone's group and was scheduled by the last add that ran for it
OneTimerPerPhone ==
  \A k \in Phones :
    /\ Cardinality(TimersOf(k)) <= 1
    /\ \A t \in PendingTimersOf(k) :
         /\ buffers[k].present
         /\ buffers[k].flush_task = t
         /\ hist[k] # <<>>
         /\ hist[k][Len(hist[k])].body = t

\* every flush carries the adds that ran since the phone's last flush, so no
\* message is flushed twice, and a flush by a timer is by the timer that the
\* last add of that very group scheduled
OwnTimerFlushes ==
  FlushInvoked =>
    LET f == lastFlush'
        e == f.expected
    IN  /\ Len(e) >= 1
        /\ Payloads(f.combined_body) = ExpectedBodies(f)
        /\ f.by = "timer" => flushing'.tid = e[Len(e)].body

\* C13: a phone never has more than one pending timer and it is the one of
\* the most recent add; add ends the earlier timer before it schedules the
\* next, so no group is flushed twice and no timer of an earlier group
\* flushes a later group of the phone.
C13_OneTimer ==
  /\ []OneTimerPerPhone
  /\ [][OwnTimerFlushes]_vars

C13_Witness ==
  \E k \in Phones :
    /\ Len(hist[k]) = 2
    /\ buffers[k].present
    /\ buffers[k].flush_task = hist[k][2].body
    /\ timers[hist[k][1].body].pc = "done"
    /\ timers[hist[k][2].body].pc = "waiting"
    /\ lastFlush.n > 0
    /\ lastFlush.phone = k
    /\ lastFlush.by = "timer"

(* ---------------------------------------------------------------------- *)
(* C14 - C18: the queue under direct calls                                 *)
(* ---------------------------------------------------------------------- *)
LeavesDeadLetter(id) ==
  StatusOf(id) = "dead_letter" /\ messages'[id].status # "dead_letter"

DequeueReturns(id) ==
  apiGot = id /\ apiGot' = NoId /\ qLast'.op = "dequeue" /\ qLast'.returned = id

\* C14: an item in status dead_letter leaves that status only through
\* retry_dead_letter; dequeue never returns it, and no enqueue, dequeue,
\* complete or fail call changes its status.
C14_DeadLetterUntilReplayed ==
  [][\A id \in QueueIds :
       /\ LeavesDeadLetter(id) =>
            qLast'.op = "retry_dead_letter" /\ qLast'.id = id
       /\ DequeueReturns(id) => StatusOf(id) # "dead_letter"]_vars

RetryRuns(id) ==
  /\ apiCalls' = apiCalls + 1
  /\ qLast'.op = "retry_dead_letter" /\ qLast'.id = id
  /\ id \in dead_letter

\* a dequeue call reaches id under the lock, and no fail call was made on id
\* since it was admitted or replayed
DequeueReachesUnfailed(id) ==
  /\ apiGot = id /\ apiGot' = NoId
  /\ id \in DOMAIN messages
  /\ failCalls[id] = 0

\* C15: retry_dead_letter on a dead-lettered item removes it from the
\* dead-letter partition, sets retry_count to 0, clears the error, sets
\* status pending and scheduled_at to now, and puts the id at the tail of the
\* pending queue once; a dequeue that reaches it then returns it, whatever
\* the delay of its last retry was.
C15_Replay ==
  [][\A id \in QueueIds :
       /\ RetryRuns(id) =>
            /\ dead_letter' = dead_letter \ {id}
            /\ messages' = [messages EXCEPT ![id].retry_count = 0,
                                            ![id].error = FALSE,
                                            ![id].status = "pending",
                                            ![id].scheduled_at = now]
            /\ pending_queue' = Append(pending_queue, id)
            /\ UNCHANGED <<processing, completed, failed, processing_times>>
       /\ DequeueReachesUnfailed(id) =>
            /\ qLast'.op = "dequeue" /\ qLast'.returned = id
            /\ messages'[id].status = "processing"]_vars

\* an item that was retried with a delay and then failed into the dead-letter
\* partition was replayed and, with no time passed since the replay, a
\* dequeue has returned it
C15_Witness ==
  /\ qLast.op = "dequeue" /\ qLast.returned = 1
  /\ 1 \in failed /\ replays = 1 /\ failCalls[1] = 0
  /\ lastDelay[1] = RetryDelays[1]
  /\ messages[1].retry_count = 0
  /\ messages[1].scheduled_at = now
  /\ messages[1].status = "processing"
  /\ dead_letter = {}

StatusChanges ==
  {<<"pending", "processing">>, <<"processing", "completed">>,
   <<"processing", "pending">>, <<"processing", "dead_letter">>,
   <<"dead_letter", "pending">>}

CompleteOrFailRuns(id) ==
  /\ apiCalls' = apiCalls + 1
  /\ qLast'.op \in {"complete", "fail"} /\ qLast'.id = id

\* C16: under every sequence of enqueue, dequeue, complete, fail and
\* retry_dead_letter calls each change of an item's status is one of
\* pending -> processing, processing -> completed, processing -> pending,
\* processing -> dead_letter, dead_letter -> pending; complete or fail on an
\* item that is not processing leaves its status alone; a completed item
\* never changes status again.
C16_StatusMachine ==
  [][\A id \in DOMAIN messages :
       /\ messages'[id].status # messages[id].status =>
            <<messages[id].status, messages'[id].status>> \in StatusChanges
       /\ (CompleteOrFailRuns(id) /\ messages[id].status # "processing") =>
            messages'[id].status = messages[id].status
       /\ messages[id].status = "completed" =>
            messages'[id].status = "completed"]_vars

FailRuns(id) ==
  /\ apiCalls' = apiCalls + 1
  /\ qLast'.op = "fail" /\ qLast'.id = id

SchedulesRetry(id) == FailRuns(id) /\ messages'[id].status = "pending"

NewDelay(id) == messages'[id].scheduled_at - now

DequeueGets == apiGot = NoId /\ apiGot' # NoId

DequeueEnds == apiGot # NoId /\ apiGot' = NoId

NotDue(id) == id \in DOMAIN messages /\ messages[id].scheduled_at > now

\* C18: dequeue never returns an item whose scheduled_at is later than now;
\* when the id it took from the head is not due it returns nothing and the id
\* is back in the pending queue (same number of entries as before the call,
\* the item's record untouched); it takes an id only from a non-empty queue
\* and returns nothing otherwise.
C18_DequeueDue ==
  [][/\ \A id \in QueueIds : DequeueReturns(id) => ~NotDue(id)
     /\ (DequeueEnds /\ NotDue(apiGot)) =>
          /\ qLast'.op = "dequeue" /\ qLast'.returned = NoId
          /\ pending_queue' = Append(pending_queue, apiGot)
          /\ messages' = messages
          /\ UNCHANGED <<processing, completed, failed, dead_letter>>
          /\ qLast.op = "dequeue_get" =>
               pending_queue' = Append(Tail(qLast.queue), Head(qLast.queue))
     /\ DequeueGets =>
          /\ pending_queue # <<>>
          /\ apiGot' = Head(pending_queue)
     /\ (qLast' # qLast /\ qLast'.op = "dequeue" /\ qLast'.returned # NoId) =>
          apiGot = qLast'.returned]_vars

\* a dequeue has taken item 1 from the head while its retry was not due: it
\* returned nothing and the item waits behind item 2, still pending
C18_Witness ==
  /\ qLast.op = "dequeue" /\ qLast.id = 1 /\ qLast.returned = NoId
  /\ qLast.before = "pending"
  /\ pending_queue = <<2, 1>>
  /\ messages[1].status = "pending"
  /\ messages[1].scheduled_at = now + RetryDelays[1]

(* ---------------------------------------------------------------------- *)
(* C19, C20: the worker's loop, Processor errors and stop()                *)
(* ---------------------------------------------------------------------- *)
ProcessorRaises == \E i \in Ids : failCalls'[i] = failCalls[i] + 1

LoopRunning == wpc \in {"check", "get", "locked"}

\* C19: a Processor error never ends the consumer loop and never comes out of
\* start(): the step in which a Processor raises leaves the loop where it
\* was, the loop has ended only if stop() was called, and as long as the
\* worker is running the loop can take its next step, whatever number of
\* items have failed.
C19_LoopSurvivesErrors ==
  /\ [](running => (LoopRunning /\ ENABLED WLoop))
  /\ [][ProcessorRaises => (wpc' = wpc /\ running' = running)]_vars

\* item 1 failed and was dead-lettered; the loop, still running, then took
\* item 2, whose Processor returned
C19_Witness ==
  /\ running /\ LoopRunning
  /\ 1 \in dead_letter /\ failCalls[1] >= 1
  /\ lastEnded.how = "returned" /\ lastEnded.msg = 2
  /\ 2 \in completed
  /\ messages[2].created_at > messages[1].created_at

StopCalled == ~running /\ wpc # "idle"

StopReturned == StopCalled /\ spc = "idle"

TakesItem == wpc = "get" /\ wpc' = "locked"

\* C20: once stop() has been called the worker takes no further item from
\* the queue and spawns no new unit, and when stop() has returned no spawned
\* unit of the worker is running.
C20_StopQuiesces ==
  /\ [][StopCalled => (~TakesItem /\ Active' \subseteq Active)]_vars
  /\ [](StopReturned => Active = {})

(* ---------------------------------------------------------------------- *)
(* C21: where an on_flush error goes                                       *)
(* ---------------------------------------------------------------------- *)
ErrorRaised == lastError' # lastError

\* the lock is free and an add is the first to wait for it
AddCanRun == ~flushing.active /\ lockq # <<>> /\ Head(lockq).kind = "add"

\* C21: an on_flush error raised during flush_all goes to the caller of
\* flush_all, which ends with it; an on_flush error raised during a timer
\* flush goes to nobody: the timer task is done, the lock is free again and
\* an add that waits for the lock can run.
C21_ErrorPropagation ==
  /\ [](AddCanRun => ENABLED AddLocked)
  /\ [][ErrorRaised =>
          /\ lastError'.n = lastFlush.n /\ lastError'.by = flushing.by
          /\ ~flushing'.active
          /\ flushing.by = "flush_all" =>
               /\ lastError'.to = "flush_all"
               /\ flushAll.pc = "flushing" /\ flushAll' = NoFlushAll
          /\ flushing.by = "timer" =>
               /\ lastError'.to = "nobody"
               /\ timers'[flushing.tid].pc = "done"
               /\ flushAll' = flushAll
               /\ lockq' = lockq /\ buffers' = buffers]_vars

\* on_flush raised in a timer flush, and an add made after that was accepted
\* and flushed by its own timer
C21_Witness ==
  /\ lastError # NoError /\ lastError.by = "timer" /\ lastError.to = "nobody"
  /\ lastFlush.n = lastError.n + 1
  /\ lastFlush.by = "timer"
  /\ lastFlush.expected[1].at >= lastFlush.at - BufferSeconds
  /\ ~flushing.active

(* ---------------------------------------------------------------------- *)
(* C22, C23: the circuit breaker's callers                                 *)
(* ---------------------------------------------------------------------- *)
FnEnds(c) == calls[c].pc = "in_fn" /\ calls'[c] = NoCall

FnFails == failsSinceSuccess' = failsSinceSuccess + 1

CallRejected == cbOps' = cbOps + 1 /\ calls' = calls

\* C22: call_with_fallback never passes on an error of fn: its caller gets
\* fn's result or the fallback, in every circuit state; call passes fn's
\* error on to its caller whenever fn was invoked and failed, and the failure
\* is recorded by then.
C22_ErrorsToCallers ==
  /\ [](cbReturned.via = "call_with_fallback" => cbReturned.outcome \in {"result", "fallback"})
  /\ [][/\ \A c \in CallSlots : FnEnds(c) =>
             /\ cbReturned'.via = calls[c].via
             /\ calls[c].via = "call_with_fallback" =>
                  cbReturned'.outcome = IF FnFails THEN "fallback" ELSE "result"
             /\ calls[c].via = "call" =>
                  cbReturned'.outcome = IF FnFails THEN "error" ELSE "result"
             /\ FnFails =>
                  /\ stats'.total_failures = stats.total_failures + 1
                  /\ stats'.last_failure_time = now
        /\ CallRejected => cbReturned'.outcome = "fallback"]_vars

\* a HalfOpen probe made through call_with_fallback failed: the circuit is
\* Open again and the caller got the fallback
C22_Witness ==
  /\ cbReturned = [via |-> "call_with_fallback", outcome |-> "fallback"]
  /\ cbLastOp.op = "failure" /\ cbLastOp.probe
  /\ cb_state = "open"
  /\ stats.total_failures >= 2

InFn == {c \in CallSlots : calls[c].pc = "in_fn"}

\* a further call passes the state check and starts fn
AnotherCallRuns == \E c \in CallSlots : CBCall(c) /\ calls'[c].pc = "in_fn"

Unflushed == {k \in Phones : hist[k] # <<>>}

NewGroupOnly(a) ==
  /\ buffers'[a.phone].present
  /\ buffers'[a.phone].messages = <<[body |-> a.id, message_sid |-> a.id]>>

\* C24: whenever the lock is free every entry of the group map holds at
\* least one event and get_pending_count is the number of phones with events
\* added and not yet flushed; every flush removes the phone's entry, and an
\* add that finds no entry creates one that holds the new event only.
C24_GroupMap ==
  /\ [](~flushing.active =>
          /\ \A k \in Phones : buffers[k].present => Len(buffers[k].messages) >= 1
          /\ GetPendingCount = Cardinality(Unflushed)
          /\ \A k \in Phones : buffers[k].present <=> k \in Unflushed)
  /\ [][/\ FlushInvoked => ~buffers'[lastFlush'.phone].present
        /\ (AddRuns /\ ~buffers[Head(lockq).phone].present) =>
             NewGroupOnly(Head(lockq))]_vars

\* a phone's group was flushed and a later add has made a new group with
\* one event for it, while the other phone has a group of its own
C24_Witness ==
  /\ ~flushing.active
  /\ lastFlush.n >= 1
  /\ GetPendingCount = 2
  /\ Len(buffers[lastFlush.phone].messages) = 1
  /\ buffers[lastFlush.phone].messages[1].body
       > lastFlush.expected[Len(lastFlush.expected)].body


(* ---------------------------------------------------------------------- *)
(* Claims about bans, spikes and keys of the rate limiter                  *)
(* ---------------------------------------------------------------------- *)
\* the last ban_lead of the key was called at most its duration ago
BanActive(k) == banSet[k].set /\ now <= banSet[k].at + Ticks(banSet[k].d)

\* the last call was is_banned or get_ban_info, and nothing ran since
ObservedNow == rlLast.op \in {"is_banned", "get_ban_info"} /\ rlLast.at = now

RecordRemoved(k) == bans[k].banned /\ ~bans'[k].banned

\* C25: after Ban(key, d, reason) at time t, IsBanned(key) is true at every
\* instant up to t + d and false at every instant after t + d, with no unban
\* call; the expired record stays until the first IsBanned or GetBanInfo
\* that observes it, which removes it.
C25_BanLazyExpiry ==
  /\ [](\A k \in RLKeys :
          /\ BanActive(k) =>
               bans[k].banned /\ bans[k].ban_until = banSet[k].at + Ticks(banSet[k].d)
          /\ (ObservedNow /\ rlLast.key = k) =>
               /\ rlLast.op = "is_banned" => rlLast.result = BanActive(k)
               /\ rlLast.op = "get_ban_info" => rlLast.found = BanActive(k)
               /\ ~BanActive(k) => ~bans[k].banned)
  /\ [][\A k \in RLKeys :
          RecordRemoved(k) =>
            /\ ~BanActive(k)
            /\ rlLast'.op \in {"is_banned", "get_ban_info"}
            /\ rlLast'.key = k /\ rlLast'.at = now]_vars

\* is_banned answers false for a key whose ban has run out, and the record
\* that was still kept is gone
C25_Witness ==
  /\ rlLast.op = "is_banned"
  /\ rlLast.at = now
  /\ ~rlLast.result
  /\ banSet[rlLast.key].set
  /\ now = banSet[rlLast.key].at + Ticks(banSet[rlLast.key].d) + 1
  /\ ~bans[rlLast.key].banned


\* the admissions of the key less than spikeWindowSeconds old
RecentAdmissions(k) ==
  {i \in 1..Len(admitted[k]) : now - admitted[k][i] < Ticks(SpikeWindowSeconds)}

SpikeAsked == rlLast'.op = "detect_spike" /\ rlLast' # rlLast

\* C26: DetectSpike(key) returns true exactly when at least spikeThreshold
\* admitted timestamps of the key lie within the trailing
\* spikeWindowSeconds, which can hold while Check still has capacity left for
\* the key; DetectSpike changes neither the key's window nor any ban record.
C26_SpikeIndependence ==
  /\ []((rlLast.op = "detect_spike" /\ rlLast.at = now) =>
          (rlLast.result <=> Cardinality(RecentAdmissions(rlLast.key)) >= SpikeThreshold))
  /\ [][SpikeAsked => requests' = requests /\ bans' = bans]_vars

\* a spike is reported for a key that the next Check would still admit
C26_Witness ==
  /\ rlLast.op = "detect_spike"
  /\ rlLast.at = now
  /\ rlLast.result
  /\ Len(admitted[rlLast.key]) < max_requests
  /\ requests[rlLast.key] # <<>>


CheckAsked == rlLast'.op = "check" /\ rlLast' # rlLast

BanAsked == rlLast'.op = "is_banned" /\ rlLast' # rlLast

\* the window of the key after an admitted Check: one more, the newest now
SlotConsumed(k) ==
  /\ Len(requests'[k]) = Len(admitted[k]) + 1
  /\ requests'[k][Len(requests'[k])] = now

\* C27: the result of Check(key) and its effect on the key's window are the
\* same whether or not the key is banned (they follow from the admissions of
\* the trailing window alone), and the result of IsBanned(key) is the same
\* whatever the window holds (it follows from the last Ban alone): a banned
\* key that still has window capacity is admitted by Check and consumes a slot.
C27_IndependentPredicates ==
  [][/\ CheckAsked =>
          /\ rlLast'.allowed <=> Len(admitted[rlLast'.key]) < max_requests
          /\ rlLast'.allowed => SlotConsumed(rlLast'.key)
          /\ ~rlLast'.allowed => Len(requests'[rlLast'.key]) = Len(admitted[rlLast'.key])
          /\ bans' = bans
     /\ BanAsked =>
          /\ rlLast'.result <=> BanActive(rlLast'.key)
          /\ requests' = requests]_vars

\* Check has just admitted a key whose ban is running
C27_Witness ==
  /\ rlLast.op = "check"
  /\ rlLast.at = now
  /\ rlLast.allowed
  /\ BanActive(rlLast.key)
  /\ bans[rlLast.key].banned
  /\ requests[rlLast.key][Len(requests[rlLast.key])] = now


\* an operation for key k has just returned
RanFor(k) == rlLast'.op # "none" /\ rlLast'.key = k /\ rlLast'.at = now

Exhausted(k) == Len(After(requests[k], now - Ticks(WindowSeconds))) >= max_requests

\* C28: Check, Ban, IsBanned, DetectSpike and GetBanInfo for one key leave
\* the window and the ban record of every other key unchanged, so exhausting
\* or banning one key never changes the outcome of an operation on another
\* key: a Check is admitted exactly when its own key has capacity.
C28_KeysIndependent ==
  [][/\ \A j \in RLKeys :
          (requests'[j] # requests[j] \/ bans'[j] # bans[j]) => RanFor(j)
     /\ CheckAsked =>
          (rlLast'.allowed <=> Len(admitted[rlLast'.key]) < max_requests)]_vars

\* a key is admitted while another key is exhausted and banned
C28_Witness ==
  /\ rlLast.op = "check"
  /\ rlLast.at = now
  /\ rlLast.allowed
  /\ \E j \in RLKeys \ {rlLast.key} :
       /\ Exhausted(j)
       /\ bans[j].banned
       /\ now <= bans[j].ban_until
       /\ requests[j][1] < now


\* a duration in ticks, rounded up to whole seconds
CeilSeconds(d) == (d + Ticks(1) - 1) \div Ticks(1)

\* the oldest admission of the key still inside the window
OldestTimestamp(k) == admitted[k][1]

\* C30: a denied Check reports retryAfter = ceil(oldestTimestamp +
\* windowSeconds - now), with a minimum of 1; an admitted Check reports
\* remaining = maxRequests minus the number of timestamps in the window,
\* the one just appended included.
C30_RetryAfterCeil ==
  (rlLast.op = "check" /\ rlLast.at = now) =>
    IF rlLast.allowed
    THEN rlLast.remaining = max_requests - Len(admitted[rlLast.key])
    ELSE rlLast.retry_after =
           Max(CeilSeconds(OldestTimestamp(rlLast.key) + Ticks(WindowSeconds) - now), 1)


(* ---------------------------------------------------------------------- *)
(* Claims about the metrics of the queue                                   *)
(* ---------------------------------------------------------------------- *)
WithStatus(st) == {id \in DOMAIN messages : messages[id].status = st}

\* C29: in every reachable state the pending, processing, completed and
\* dead-letter counts returned by GetMetrics equal the number of items whose
\* status is Pending, Processing, Completed and DeadLetter respectively.
C29_MetricsMatchStatus ==
  /\ GetMetrics.pending = Cardinality(WithStatus("pending"))
  /\ GetMetrics.processing = Cardinality(WithStatus("processing"))
  /\ GetMetrics.completed = Cardinality(WithStatus("completed"))
  /\ GetMetrics.dead_letter = Cardinality(WithStatus("dead_letter"))


(* ---------------------------------------------------------------------- *)
(* Claims about calls in flight across state changes of the circuit        *)
(* ---------------------------------------------------------------------- *)
CallEnds(c) == calls[c].pc = "in_fn" /\ calls'[c].pc = "free"

ClosesFromHalfOpen == cb_state = "half_open" /\ cb_state' = "closed"

\* C31: the circuit leaves HalfOpen for Closed by the outcome of a call only
\* when a call admitted as a probe, while the circuit was HalfOpen, succeeds:
\* the success of a call that was admitted while the circuit was Closed and
\* is still in flight does not close a HalfOpen circuit.
C31_OnlyProbesClose ==
  [][\A c \in CallSlots :
       (CallEnds(c) /\ SuccessRecorded /\ ClosesFromHalfOpen) => calls[c].probe]_vars


(* ---------------------------------------------------------------------- *)
(* Claims about the lock of the buffer and the outcome of flushes          *)
(* ---------------------------------------------------------------------- *)
\* the call that has waited longest for the lock of the buffer
NextWaiting(kind) == lockq # <<>> /\ Head(lockq).kind = kind

\* C32: the flush callback is invoked outside the buffer's lock: while the
\* callback of one flush is running, an Add or a FlushAll that asks for the
\* lock gets it and runs (so a callback that itself awaits Add or
\* GetPendingCount, which take the same lock, is not waiting for itself).
C32_CallbackOutsideLock ==
  flushing.active =>
    /\ NextWaiting("add") => ENABLED AddLocked
    /\ NextWaiting("flush_all") => ENABLED (FlushAllSnapshot \/ FlushAllLocked)


FlushAllFinishes == flushAll.pc # "idle" /\ flushAll'.pc = "idle"

\* the group that phone k had when flush_all was called is still buffered
Remains(k) ==
  /\ faGroups[k] # 0
  /\ buffers'[k].present
  /\ buffers'[k].messages[1].message_sid = faGroups[k]

\* a timer started by an add to that group is still live (timers carry the
\* number of the add that started them, as sids do)
TimerRemains(k) ==
  /\ faGroups[k] # 0
  /\ \E t \in AddIds :
       /\ timers'[t].pc # "done"
       /\ timers'[t].phone = k
       /\ t >= faGroups[k]
       /\ buffers'[k].present => t < buffers'[k].messages[1].message_sid
                                 \/ Remains(k)

\* C33: FlushAll flushes every group that is outstanding when it is called,
\* whatever the outcome of the individual callbacks: when FlushAll has
\* finished, by returning or by raising, none of those groups remains in the
\* buffer and none of them has a pending timer.
C33_FlushAllLeavesNothing ==
  [][FlushAllFinishes =>
       \A k \in Phones : ~Remains(k) /\ ~TimerRemains(k)]_vars


\* the event of add i is in the group of some phone
InGroup(i) ==
  \E k \in Phones :
    buffers[k].present /\ \E j \in 1..Len(buffers[k].messages) : buffers[k].messages[j].body = i

FlushEnds == flushing.active /\ ~flushing'.active

\* C36: every event accepted by Add is included in exactly one on_flush
\* invocation, whether that invocation returns or raises: the group is
\* removed from the buffer before the callback runs, so an event that was
\* offered is no longer buffered, the end of a flush puts nothing back, and
\* no event is offered to the callback a second time.
C36_OfferedExactlyOnce ==
  /\ [](\A i \in AddIds : offered[i] <= 1 /\ ~(offered[i] = 1 /\ InGroup(i)))
  /\ [][FlushEnds => buffers' = buffers /\ offered' = offered]_vars
  /\ \A i \in AddIds : InGroup(i) ~> (offered[i] = 1)

\* a timer flush raised, and a later event of the same phone was flushed by
\* its own timer: every event so far went to the callback once
C36_Witness ==
  /\ lastError.n >= 1
  /\ lastError.by = "timer"
  /\ lastFlush.n > lastError.n
  /\ lastFlush.by = "timer"
  /\ ~flushing.active
  /\ \A i \in 1..addCount : offered[i] = 1


(* ---------------------------------------------------------------------- *)
(* Claims about denied checks                                              *)
(* ---------------------------------------------------------------------- *)
CheckDenied == CheckAsked /\ ~rlLast'.allowed

\* C34: a denied Check records no timestamp: apart from pruning expired
\* timestamps it leaves the key's window unchanged, so repeated denied calls
\* do not postpone the instant at which the key is admitted again, which
\* stays windowSeconds after the oldest admission still in the window.
C34_DeniedRecordsNothing ==
  [][CheckDenied =>
       LET k == rlLast'.key IN
       /\ requests'[k] = After(requests[k], now - Ticks(WindowSeconds))
       /\ requests'[k] = admitted[k]
       /\ rlLast'.reset_at = OldestTimestamp(k) + Ticks(WindowSeconds)]_vars

\* a key is denied again, later than its first denial could have been, and
\* its window still holds the admissions only
C34_Witness ==
  /\ rlLast.op = "check"
  /\ ~rlLast.allowed
  /\ rlLast.at = now
  /\ now > OldestTimestamp(rlLast.key) + 1
  /\ requests[rlLast.key] = admitted[rlLast.key]
  /\ \A i \in 1..Len(requests[rlLast.key]) : requests[rlLast.key][i] < now


(* ---------------------------------------------------------------------- *)
(* Claims about the ownership of dequeued items                            *)
(* ---------------------------------------------------------------------- *)
\* the entries of the pending queue that name item id
Entries(id) == {i \in 1..Len(pending_queue) : pending_queue[i] = id}

\* C35: an item returned by Dequeue is not returned by any other Dequeue
\* until a Fail has returned it to Pending (a returned item is Pending when it
\* is taken, never Processing or settled), and no item id is ever present
\* twice in the pending queue, so that concurrent Dequeue calls return
\* pairwise distinct items.
C35_DequeuedOnce ==
  /\ [](\A id \in QueueIds : Cardinality(Entries(id)) <= 1)
  /\ [][\A id \in QueueIds : DequeueReturns(id) => StatusOf(id) = "pending"]_vars


(* ---------------------------------------------------------------------- *)
(* Claims about the items the worker holds and the metrics                 *)
(* ---------------------------------------------------------------------- *)
\* a spawned unit of the worker holds the item: it waits for a slot of the
\* semaphore or runs the Processor
Held(id) == \E t \in Active : tasks[t].msg = id

\* C37: an item has status Processing only while a spawned unit of the
\* worker holds it: once no unit holds it, it is Completed, Pending or
\* DeadLetter; in particular after stop() has returned and its units have
\* ended, force-cancelled ones included, no item is left in status Processing.
C37_ProcessingIsHeld ==
  \A id \in DOMAIN messages : messages[id].status = "processing" => Held(id)


\* the step writes opened_at or counts a state change
TransitionRecorded ==
  \/ stats'.opened_at # stats.opened_at
  \/ stats'.state_changes # stats.state_changes

\* _record_failure has ended a call
FailureEnds == cbLastOp'.op = "failure" /\ FailureRecorded

\* C38: opened_at and state_changes change only when the state of the circuit
\* actually changes: the failure of a call that ends while the circuit is
\* already Open (the call was admitted before it opened) neither resets
\* opened_at nor counts as a state change, so the recovery timeout runs from
\* the moment the circuit last entered Open.
C38_ChangesOnlyWithState ==
  [][(FailureEnds /\ TransitionRecorded) => cb_state' # cb_state]_vars


\* C39: the worker takes an item only when a slot of the semaphore is free:
\* neither the number of items in status Processing (QueueMetrics.processing)
\* nor the number of spawned units ever exceeds max_concurrent.
C39_TakesWithinBudget ==
  /\ GetMetrics.processing <= max_concurrent
  /\ Cardinality(Active) <= max_concurrent


\* a direct caller's Fail(id) has acted on an item the queue knows
FailCalled(id) ==
  /\ apiCalls' = apiCalls + 1
  /\ qLast'.op = "fail" /\ qLast'.id = id /\ qLast'.before # "absent"

\* the fraction r equals 100 * f / (c + f), and 0 when c + f = 0
IsRateOf(r, c, f) ==
  IF c + f = 0 THEN r.num = 0 ELSE r.num * (c + f) = 100 * f * r.den

\* C40: the failed count of get_metrics is the number of distinct items that
\* have failed at least once since the queue was created: it is 0 at first, a
\* Fail of an item adds that item if it is not counted yet, no other call
\* (Complete and RetryDeadLetter included) changes it and it never decreases;
\* an item that failed and later completed is counted in completed and in
\* failed, and error_rate = 100 * failed / (completed + failed) is computed
\* from these two counts, 0 when both are 0.
C40_FailedCountsDistinctFailures ==
  /\ GetMetrics.failed = 0
  /\ [][ /\ \A id \in QueueIds : FailCalled(id) => failed' = failed \cup {id}
         /\ (~ \E id \in QueueIds : FailCalled(id)) => failed' = failed
         /\ GetMetrics'.failed >= GetMetrics.failed ]_vars
  /\ [](/\ GetMetrics.failed = Cardinality(failed)
        /\ IsRateOf(ErrorRate, GetMetrics.completed, GetMetrics.failed))

\* item 1 failed and was completed later: it is counted in both counts and
\* the error rate is 50
C40_Witness ==
  /\ qLast.op = "complete" /\ qLast.id = 1
  /\ 1 \in failed /\ 1 \in completed
  /\ GetMetrics.failed = 1 /\ GetMetrics.completed = 1
  /\ ErrorRate.num = 50 * ErrorRate.den

====
